---- MODULE Spec2Model ----
(***************************************************************************)
(* GatorMotion: verification model of                                      *)
(*   - the iOS stream pipeline (src/main.py run_ios_stream_pipeline and    *)
(*     src/backend/websocket_server.py),                                   *)
(*   - the dashboard fan-out server (src/server/dashboard_server.py),      *)
(*   - the knee-angle rep counter of the coaching engines                  *)
(*     (src/cv_backend/coach_engine.py, EXPERIMENT_PT_coach/live_coach.py).*)
(*                                                                         *)
(* asyncio is a cooperative scheduler: a coroutine runs without            *)
(* interruption from one await to the next.  The variable cpu names the    *)
(* coroutine that is inside such a segment; every other coroutine's step   *)
(* waits until cpu is free.                                                *)
(***************************************************************************)
EXTENDS Integers, Sequences, FiniteSets, TLC

\* ---------------------------------------------------------------- bounds
MaxPayloads == 3        \* payloads delivered to on_payload in one run
MaxTime == 2            \* clock ticks explored
MaxConns == 2           \* concurrent ingest connections in server mode
MaxFrames == 2          \* messages read by the dashboard server's ingest handlers
MaxSubs == 3            \* dashboard subscribers
MaxHandlers == 2        \* connections to the dashboard server's /skeleton endpoint
MaxReps == 2            \* repetitions counted in one session
TrajCycles == 5         \* full cycles of the synthetic knee-angle trajectory
MaxHold == 6            \* samples a trajectory stays at one extreme
MaxCoachFrames == 3     \* frames with a pose in a session that varies the pose
MaxRingFrames == 13     \* frames in a session that fills the quality ring
MaxV2Frames == 2        \* frames given to a divergence-mode engine
MaxJointUpdates == 14   \* RepCounter.update calls with visible joints
MaxArmFrames == 4       \* frames given to ArmDepthMotionDetector.update
MaxQualityFrames == 9   \* frames in a session that varies the match distance
MaxEvalFrames == 5      \* frames handed to ExercisePipeline.evaluate_frame
MaxLogEvery == 3        \* largest LOG_EVERY_N_FRAMES explored
MaxMessages == 3        \* messages an ingest reader takes off its sockets
MaxCorpus == 10         \* reference frames in a training corpus

\* ------------------------------------------------------ program constants
no_depth_warmup_frames == 12    \* src/main.py:823
FrameIntervalTicks == 2         \* 1 / IOS_MAX_PROCESS_FPS, in clock ticks
ThrottleIntervalTicks == 1       \* 1 / IOS_MAX_PROCESS_FPS in SpecThrottle
ReconnectDelayTicks == 1        \* IOS_STREAM_RECONNECT_DELAY_SEC, in ticks
KneeHistMaxLen == 10            \* deque(maxlen=10)
KneeWindow == 5                 \* moving_average(list(self.knee_hist), 5)
PTDownThreshold == 125          \* live_coach.py: `k < 125`
PTStandingThreshold == 160      \* live_coach.py: `k > 160`
V2DownDefault == 120            \* knee_cal.get("p10", 120.0)
V2StandingDefault == 155        \* knee_cal.get("p90", 155.0)
QualityHistMaxLen == 15         \* live_coach.py: deque(maxlen=15)
QualityWindow == 8              \* moving_average(list(self.quality_hist), 8)
cooldown_ms == 5000             \* live_coach.py: ts_ms - last_message_ts_ms > 5000
overlay_alpha_cur == 72         \* live_coach.py: 0.72
overlay_alpha_tgt == 82         \* live_coach.py: 0.82
DirectionRatio == 2200          \* _dominant_direction: ratio >= 1.1
V2VisibleFrom == 50             \* coach_engine.py: `if vis < 0.5: continue`
JointVisibleFrom == 50          \* rep_counter.py: min visibility < 0.5
FilterAlpha == 85               \* ComplementaryFilter(alpha=0.85)
filter_alpha == 40              \* ARM_DEPTH_FILTER_ALPHA 0.40, in hundredths
velocity_deadband_mps == 300    \* 0.03 m/s, in 1e-4 m per second
min_half_cycle_amplitude_m == 400       \* 0.04 m, in 1e-4 m
min_half_cycle_duration_sec == 200      \* 0.20 s, in ms

VARIABLES
    \* ---- run_ios_stream_pipeline (src/main.py) ----
    drop_if_busy,                \* config.IOS_DROP_PAYLOADS_IF_BUSY
    device_is_server,            \* config.IOS_DEVICE_IS_SERVER (client mode)
    frame_interval_sec,          \* 0 when IOS_MAX_PROCESS_FPS = 0
    now,                         \* the clock (perf_counter / monotonic)
    pc,                          \* position of each ingest reader coroutine
    cur,                         \* payload a reader is processing inline
    wake_at,                     \* end of the reader's asyncio.sleep
    received_payloads,
    dropped_payloads,
    rate_limited_count,
    last_processed_at,
    consecutive_no_depth_frames,
    active_processing_task,
    cpu,                         \* coroutine inside a synchronous segment
    in_progress,                 \* process_payload invocations started, not finished
    started,                     \* payloads handed to process_payload
    dropped_ids,                 \* payloads discarded by on_payload
    evaluated,                   \* calls of pipeline.evaluate_frame, in order
    outcome,                     \* how each process_payload invocation ended
    \* ---- dashboard server (src/server/dashboard_server.py) ----
    dashboard_clients,           \* the module-level subscriber set
    sub_pc,                      \* position of each handle_dashboard_ws coroutine
    ing_pc,                      \* position of each handle_skeleton_ws coroutine
    broken,                      \* subscribers whose socket is closing: a send raises
    stalled,                     \* subscribers that accept no more writes
    frames,                      \* ingest messages read so far
    produced,                    \* skeletons returned by process_frame, in order
    delivered,                   \* payloads each subscriber was sent, in order
    \* ---- coaching engine rep counter (coach_engine.py, live_coach.py) ----
    engine,                      \* "PT" (PTCoachEngine) or "V2" (CoachV2Engine)
    down_threshold,
    standing_threshold,
    knee_hist,                   \* deque(maxlen=10) of mean knee angles
    rep_state,
    rep_count,
    \* ---- a synthetic knee-angle trajectory fed to an engine ----
    traj_phase,                  \* "start", "low" (110), "high" (170) or "done"
    traj_cycle,                  \* full cycles completed
    traj_held,                   \* samples fed at the current extreme
    traj_ramped,                 \* an in-between sample opened this half cycle
    traj_short,                  \* some extreme was held for fewer samples
                                 \* than the moving-average window
    \* ---- live coach (EXPERIMENT_PT_coach/live_coach.py) ----
    active_corrections,          \* PTCoachEngine.active_corrections
    quality_hist,                \* deque(maxlen=15) of clipped qualities
    dist_cal,                    \* metadata distance_calibration
    tol,                         \* metadata correction_tolerance
    frame_in,                    \* what the main loop got for the last frame
    payload,                     \* the payload written for the last frame
    overlay_state,               \* PTCoachEngine.overlay_state, per landmark
    last_spoken_message,
    last_message_ts_ms,
    ts_ms,                       \* timestamp of the last frame given to infer
    speech,                      \* payload["speech"] of the last frame
    ui_log,                      \* per observed infer call: active flags, raw
                                 \* points and the ui points of the payload
    spoken,                      \* the utterances of an observed session
    \* ---- ExercisePipeline and its session sink (src/main.py) ----
    frame_index,                 \* ExercisePipeline.frame_index
    sessions_collection,         \* "none" (None) or "set" (a collection)
    log_every_n_frames,          \* config.LOG_EVERY_N_FRAMES
    sink_up,                     \* whether insert_one succeeds right now
    eval_results,                \* how each evaluate_frame call ended
    logged,                      \* frame_index of each record written
    \* ---- one ingest reader and its messages (websocket_server.py) ----
    rd_client_mode,              \* consume_remote_skeleton_stream (TRUE) or
                                 \* on_connection of run_skeleton_ws_server
    rd_pc,                       \* "connected", "sleeping" or "ended"
    conn_no,                     \* connections this reader has had
    handled,                     \* each message read: kind, connection, result
    \* ---- reference trainers and the replay of a corpus ----
    trainer,                     \* "train_reference" (cv_backend) or
                                 \* "train_model" (EXPERIMENT_PT_coach)
    corpus,                      \* data["frames"], as feature positions
    train_outcome,               \* "none", "written" or the exception raised
    artifact,                    \* the model files on disk, or NoModel
    matches,                     \* infer results of the replay, in order
    \* ---- shutdown of run_ios_stream_pipeline (src/main.py:1085-1109) ----
    sd_pc,                       \* where the pipeline coroutine is suspended
    sd_drop_if_busy,             \* config.IOS_DROP_PAYLOADS_IF_BUSY
    sd_received,                 \* payloads handed to on_payload
    monitor_task,                \* the stream_health_monitor task
    sd_task,                     \* active_processing_task
    mediapipe_fusion,            \* "None" or "set"
    fusion_open,                 \* the fusion engine holds its estimator
    preview,                     \* "None" or "set"
    preview_open,                \* the preview window exists
    sd_exc,                      \* what is leaving run_ios_stream_pipeline
    \* ---- divergence-mode engines (coach_engine.py, live_coach_v2.py) ----
    v2_impl,                     \* "cv_backend" or "experiment"
    coach_threshold,             \* CoachV2Engine.coach_threshold
    v2_frame,                    \* the last frame given to infer
    v2_divergences,              \* its per-joint divergences, in loop order
    v2_coaching,                 \* its coaching messages, as returned
    rms_history,                 \* squared rms divergence of each frame
    \* ---- joint-angle RepCounter (cv_backend/rep_counter.py) ----
    joint_exercise,              \* the key of RepCounter.config
    joint_state,                 \* RepCounter.state
    joint_rep_count,             \* RepCounter.rep_count
    smoothed_angle,              \* filter.smoothed_value, NoAngle for None
    joint_input,                 \* what the last update call was given
    joint_updates,               \* update calls that reached the filter
    \* ---- ArmDepthMotionDetector (main.py) ----
    arm_states,                  \* ArmDepthMotionDetector.arm_states
    arm_frame,                   \* the last frame given to update
    arm_clock,                   \* the latest frame timestamp, in ms
    arm_frames                   \* frames given to update

streamVars == <<drop_if_busy, device_is_server, frame_interval_sec, now, pc,
                cur, wake_at, received_payloads, dropped_payloads,
                rate_limited_count, last_processed_at,
                consecutive_no_depth_frames, active_processing_task, cpu,
                in_progress, started, dropped_ids, evaluated, outcome>>

dashVars == <<dashboard_clients, sub_pc, ing_pc, broken, stalled, frames,
              produced, delivered>>

engineVars == <<engine, down_threshold, standing_threshold, knee_hist,
                rep_state, rep_count>>

trajVars == <<traj_phase, traj_cycle, traj_held, traj_ramped, traj_short>>

coachVars == <<active_corrections, quality_hist, dist_cal, tol, frame_in,
               payload, overlay_state, last_spoken_message,
               last_message_ts_ms, ts_ms, speech, ui_log, spoken>>

pipeVars == <<frame_index, sessions_collection, log_every_n_frames, sink_up,
              eval_results, logged>>

ingestVars == <<rd_client_mode, rd_pc, conn_no, handled>>

trainVars == <<trainer, corpus, train_outcome, artifact, matches>>

shutVars == <<sd_pc, sd_drop_if_busy, sd_received, monitor_task, sd_task,
              mediapipe_fusion, fusion_open, preview, preview_open, sd_exc>>

divVars == <<v2_impl, coach_threshold, v2_frame, v2_divergences, v2_coaching,
             rms_history>>

jointVars == <<joint_exercise, joint_state, joint_rep_count, smoothed_angle,
               joint_input, joint_updates>>

armVars == <<arm_states, arm_frame, arm_clock, arm_frames>>

vars == <<streamVars, dashVars, engineVars, trajVars, coachVars, pipeVars,
          ingestVars, trainVars, shutVars,
    divVars,
    jointVars,
    armVars>>

\* what the actions of one component leave alone
notStream == <<dashVars, engineVars, trajVars, coachVars, pipeVars,
               ingestVars, trainVars, shutVars,
    divVars,
    jointVars,
    armVars>>
notDash == <<streamVars, engineVars, trajVars, coachVars, pipeVars,
             ingestVars, trainVars, shutVars,
    divVars,
    jointVars,
    armVars>>
notEngine == <<streamVars, dashVars, trajVars, coachVars, pipeVars,
               ingestVars, trainVars, shutVars,
    divVars,
    jointVars,
    armVars>>
\* (the trajectory and the live coach drive the rep counter of engineVars)
notTraj == <<streamVars, dashVars, coachVars, pipeVars, ingestVars, trainVars, shutVars,
    divVars,
    jointVars,
    armVars>>
notCoach == <<streamVars, dashVars, trajVars, pipeVars, ingestVars, trainVars, shutVars,
    divVars,
    jointVars,
    armVars>>
notPipe == <<streamVars, dashVars, engineVars, trajVars, coachVars,
             ingestVars, trainVars, shutVars,
    divVars,
    jointVars,
    armVars>>
notIngest == <<streamVars, dashVars, engineVars, trajVars, coachVars,
               pipeVars, trainVars, shutVars,
    divVars,
    jointVars,
    armVars>>
notTrain == <<streamVars, dashVars, engineVars, trajVars, coachVars,
              pipeVars, ingestVars,
              shutVars,
    divVars,
    jointVars,
    armVars>>
notShut == <<streamVars, dashVars, engineVars, trajVars, coachVars,
             pipeVars, ingestVars, trainVars,
    divVars,
    jointVars,
    armVars>>
notDiv == <<streamVars, dashVars, engineVars, trajVars,
    coachVars, pipeVars, ingestVars, trainVars, shutVars,
    jointVars,
    armVars>>
notJoint == <<streamVars, dashVars, engineVars, trajVars,
    coachVars, pipeVars, ingestVars, trainVars, shutVars, divVars,
    armVars>>
notArm == <<streamVars, dashVars, engineVars, trajVars,
    coachVars, pipeVars, ingestVars, trainVars, shutVars, divVars, jointVars>>

\* ======================================================================
\* iOS stream pipeline
\* ======================================================================

Free == 0                       \* cpu: the event loop is between segments
TaskOwner == -1                 \* cpu: the task created by on_payload

NoTask == [id |-> 0, st |-> "none"]     \* active_processing_task is None

\* consume_remote_skeleton_stream is one coroutine; run_skeleton_ws_server
\* runs one on_connection coroutine per accepted connection.
Readers == IF device_is_server THEN {1} ELSE 1..MaxConns

\* process_payload contains no await (src/main.py:887-1043): once started it
\* runs to its return inside one event-loop segment.
process_payload_awaits == TRUE

process_payload_suspends == FALSE

\* on_payload: `active_processing_task is not None and not
\* active_processing_task.done()`
TaskBusyInverted ==
    active_processing_task # NoTask /\ active_processing_task.st = "done"

TaskBusy ==
    active_processing_task # NoTask /\ active_processing_task.st # "done"

\* process_payload: `frame_interval_sec > 0.0 and
\* (now_perf - last_processed_at) < frame_interval_sec`
Throttled ==
    frame_interval_sec > 0 /\ (now - last_processed_at) < frame_interval_sec

\* run_ios_stream_pipeline before the reader starts: counters at zero, no task
StreamStart ==
    /\ now = 0
    /\ pc = [r \in 1..MaxConns |-> "connecting"]
    /\ cur = [r \in 1..MaxConns |-> 0]
    /\ wake_at = 0
    /\ received_payloads = 0
    /\ dropped_payloads = 0
    /\ rate_limited_count = 0
    /\ last_processed_at = 0
    /\ consecutive_no_depth_frames = 0
    /\ active_processing_task = NoTask
    /\ cpu = Free
    /\ in_progress = {}
    /\ started = {}
    /\ dropped_ids = {}
    /\ evaluated = <<>>
    /\ outcome = [i \in 1..MaxPayloads |-> "none"]

InitStream ==
    /\ drop_if_busy \in BOOLEAN
    /\ device_is_server \in BOOLEAN
    /\ frame_interval_sec \in {0, FrameIntervalTicks}
    /\ StreamStart

\* time passes
Tick ==
    /\ now < MaxTime
    /\ now' = now + 1
    /\ UNCHANGED <<drop_if_busy, device_is_server, frame_interval_sec, pc,
                   cur, wake_at, received_payloads, dropped_payloads,
                   rate_limited_count, last_processed_at,
                   consecutive_no_depth_frames, active_processing_task, cpu,
                   in_progress, started, dropped_ids, evaluated, outcome>>
    /\ UNCHANGED notStream

\* ---- the start of process_payload: the throttle (lines 892-902) ----
\* Either the invocation returns at once (throttled) or it goes on and is in
\* progress until TaskFinish / InlineFinish.
BeginThrottled(id) ==
    /\ rate_limited_count' = rate_limited_count + 1
    /\ outcome' = [outcome EXCEPT ![id] = "throttled"]
    /\ started' = started \cup {id}
    /\ UNCHANGED <<last_processed_at, in_progress, cpu>>

\* an accepting branch that forgets `last_processed_at = now_perf`
BeginAcceptedUnstamped(id, owner) ==
    /\ in_progress' = in_progress \cup {id}
    /\ started' = started \cup {id}
    /\ cpu' = IF process_payload_suspends THEN Free ELSE owner
    /\ UNCHANGED <<last_processed_at, rate_limited_count, outcome>>

BeginAccepted(id, owner) ==
    /\ last_processed_at' = now
    /\ in_progress' = in_progress \cup {id}
    /\ started' = started \cup {id}
    /\ cpu' = IF process_payload_suspends THEN Free ELSE owner
    /\ UNCHANGED <<rate_limited_count, outcome>>

\* ---- the rest of process_payload (lines 904-1043) ----
\* valid: adapt_ios_payload accepts the payload; has_depth: point_depths_m is
\* non-empty; depth_expected: depth_mode not in {none, body_only};
\* raises: pipeline.evaluate_frame raises (the session sink's insert_one).
ProcessBody(id, valid, has_depth, depth_expected, raises) ==
    LET cnt == IF ~valid THEN consecutive_no_depth_frames
               ELSE IF has_depth THEN 0
               ELSE consecutive_no_depth_frames + 1
        waiting == valid /\ ~has_depth /\ depth_expected
                   /\ cnt <= no_depth_warmup_frames
        reaches == valid /\ ~waiting
    IN  /\ consecutive_no_depth_frames' = cnt
        /\ evaluated' = IF reaches THEN Append(evaluated, id) ELSE evaluated
        /\ outcome' = [outcome EXCEPT ![id] =
                          IF ~valid THEN "invalid"
                          ELSE IF waiting THEN "waiting_depth"
                          ELSE IF raises THEN "raised"
                          ELSE "evaluated"]
        /\ in_progress' = in_progress \ {id}
        /\ cpu' = Free

\* ---- on_payload (lines 1045-1067) ----
on_payload(r) ==
    /\ cpu = Free
    /\ r \in Readers
    /\ pc[r] = "connected"
    /\ received_payloads < MaxPayloads
    /\ received_payloads' = received_payloads + 1
    /\ LET id == received_payloads + 1 IN
       IF drop_if_busy
       THEN IF TaskBusy
            THEN /\ dropped_payloads' = dropped_payloads + 1
                 /\ dropped_ids' = dropped_ids \cup {id}
                 /\ UNCHANGED <<active_processing_task, pc, cur, started,
                                rate_limited_count, outcome,
                                last_processed_at, in_progress, cpu>>
            ELSE /\ active_processing_task' = [id |-> id, st |-> "pending"]
                 /\ UNCHANGED <<dropped_payloads, dropped_ids, pc, cur,
                                started, rate_limited_count, outcome,
                                last_processed_at, in_progress, cpu>>
       ELSE \* await process_payload(payload): runs inline in the reader
            /\ IF Throttled
               THEN BeginThrottled(id) /\ UNCHANGED <<pc, cur>>
               ELSE /\ BeginAccepted(id, r)
                    /\ pc' = [pc EXCEPT ![r] = "processing"]
                    /\ cur' = [cur EXCEPT ![r] = id]
            /\ UNCHANGED <<dropped_payloads, dropped_ids,
                           active_processing_task>>
    /\ UNCHANGED <<drop_if_busy, device_is_server, frame_interval_sec, now,
                   wake_at, consecutive_no_depth_frames, evaluated>>
    /\ UNCHANGED notStream

\* the event loop starts the task created by asyncio.create_task
TaskStart ==
    /\ cpu = Free
    /\ active_processing_task.st = "pending"
    /\ LET id == active_processing_task.id IN
       IF Throttled
       THEN /\ BeginThrottled(id)
            /\ active_processing_task' =
                   [active_processing_task EXCEPT !.st = "done"]
       ELSE /\ BeginAccepted(id, TaskOwner)
            /\ active_processing_task' =
                   [active_processing_task EXCEPT !.st = "running"]
    /\ UNCHANGED <<drop_if_busy, device_is_server, frame_interval_sec, now,
                   pc, cur, wake_at, received_payloads, dropped_payloads,
                   consecutive_no_depth_frames, dropped_ids, evaluated>>
    /\ UNCHANGED notStream

\* the task runs process_payload to its return (or to an exception, which the
\* task object keeps)
TaskFinish ==
    /\ active_processing_task.st = "running"
    /\ cpu \in {Free, TaskOwner}
    /\ \E valid, has_depth, depth_expected, raises \in BOOLEAN :
          ProcessBody(active_processing_task.id, valid, has_depth,
                      depth_expected, raises)
    /\ active_processing_task' = [active_processing_task EXCEPT !.st = "done"]
    /\ UNCHANGED <<drop_if_busy, device_is_server, frame_interval_sec, now,
                   pc, cur, wake_at, received_payloads, dropped_payloads,
                   rate_limited_count, last_processed_at, started,
                   dropped_ids>>
    /\ UNCHANGED notStream

\* How a reader leaves its `async for` loop on an exception: the client
\* reader (consume_remote_skeleton_stream) lands in `except Exception` and
\* sleeps reconnect_delay_sec; a server connection handler (on_connection)
\* has no handler and ends.
ReaderFails(r) ==
    IF device_is_server
    THEN /\ pc' = [pc EXCEPT ![r] = "sleeping"]
         /\ wake_at' = now + ReconnectDelayTicks
    ELSE /\ pc' = [pc EXCEPT ![r] = "ended"]
         /\ UNCHANGED wake_at

\* process_payload returns (or raises) into on_payload, _dispatch and the
\* reader's `async for` loop.
InlineFinish(r) ==
    /\ r \in Readers
    /\ pc[r] = "processing"
    /\ cpu \in {Free, r}
    /\ \E valid, has_depth, depth_expected, raises \in BOOLEAN :
          /\ ProcessBody(cur[r], valid, has_depth, depth_expected, raises)
          /\ IF outcome'[cur[r]] = "raised"
             THEN ReaderFails(r)
             ELSE /\ pc' = [pc EXCEPT ![r] = "connected"]
                  /\ UNCHANGED wake_at
    /\ cur' = [cur EXCEPT ![r] = 0]
    /\ UNCHANGED <<drop_if_busy, device_is_server, frame_interval_sec, now,
                   received_payloads, dropped_payloads, rate_limited_count,
                   last_processed_at, active_processing_task, started,
                   dropped_ids>>
    /\ UNCHANGED notStream

readerOnly == <<drop_if_busy, device_is_server, frame_interval_sec, now, cur,
                received_payloads, dropped_payloads, rate_limited_count,
                last_processed_at, consecutive_no_depth_frames,
                active_processing_task, cpu, in_progress, started,
                dropped_ids, evaluated, outcome>>

\* websockets.connect succeeds / a client connects on the expected path
ConnectOk(r) ==
    /\ cpu = Free
    /\ r \in Readers
    /\ pc[r] = "connecting"
    /\ pc' = [pc EXCEPT ![r] = "connected"]
    /\ UNCHANGED <<readerOnly, wake_at>>
    /\ UNCHANGED notStream

\* websockets.connect raises (refused, bad handshake) / the request path is
\* not the expected one and on_connection closes the socket and returns
ConnectFail(r) ==
    /\ cpu = Free
    /\ r \in Readers
    /\ pc[r] = "connecting"
    /\ ReaderFails(r)
    /\ UNCHANGED readerOnly
    /\ UNCHANGED notStream

\* `async for raw_message in socket` raises ConnectionClosedError: transport
\* error, ping timeout (close code 1011), abnormal closure
TransportError(r) ==
    /\ cpu = Free
    /\ r \in Readers
    /\ pc[r] = "connected"
    /\ ReaderFails(r)
    /\ UNCHANGED readerOnly
    /\ UNCHANGED notStream

\* _decode_payload raises ValueError / JSONDecodeError inside the loop
DecodeError(r) ==
    /\ cpu = Free
    /\ r \in Readers
    /\ pc[r] = "connected"
    /\ ReaderFails(r)
    /\ UNCHANGED readerOnly
    /\ UNCHANGED notStream

\* The peer closes the connection normally (close code 1000 or 1001): the
\* `async for` iterator of a websockets connection ends without raising, the
\* `async with` block is left normally and `while True` starts the next
\* connection attempt at once; line 150 (the sleep) is not reached.
PeerClose(r) ==
    /\ cpu = Free
    /\ r \in Readers
    /\ pc[r] = "connected"
    /\ pc' = [pc EXCEPT ![r] = IF device_is_server THEN "connecting"
                                ELSE "ended"]
    /\ UNCHANGED <<readerOnly, wake_at>>
    /\ UNCHANGED notStream

\* asyncio.sleep(config.reconnect_delay_sec) returns
SleepDone(r) ==
    /\ cpu = Free
    /\ r \in Readers
    /\ pc[r] = "sleeping"
    /\ now >= wake_at
    /\ pc' = [pc EXCEPT ![r] = "connecting"]
    /\ UNCHANGED <<readerOnly, wake_at>>
    /\ UNCHANGED notStream

\* The reader task is cancelled: CancelledError is raised at the await the
\* reader is suspended in and re-raised by `except asyncio.CancelledError`.
Cancel ==
    /\ cpu = Free
    /\ \E r \in Readers : pc[r] \in {"connecting", "connected", "sleeping"}
    /\ pc' = [r \in 1..MaxConns |->
                 IF r \in Readers /\ pc[r] # "ended"
                 THEN "cancelled" ELSE pc[r]]
    /\ UNCHANGED <<readerOnly, wake_at>>
    /\ UNCHANGED notStream

\* ======================================================================
\* Dashboard fan-out server
\* ======================================================================

Subs == 1..MaxSubs
Handlers == 1..MaxHandlers

InitDashboard ==
    /\ dashboard_clients = {}
    /\ sub_pc = [s \in Subs |-> "absent"]
    /\ ing_pc = [h \in Handlers |-> "absent"]
    /\ broken = {}
    /\ stalled = {}
    /\ frames = 0
    /\ produced = <<>>
    /\ delivered = [s \in Subs |-> <<>>]

\* handle_dashboard_ws up to its `async for`: the module has no assignment to
\* dashboard_clients in this function, so the name is the module-level set.
DashboardConnect(s) ==
    /\ sub_pc[s] = "absent"
    /\ sub_pc' = [sub_pc EXCEPT ![s] = "open"]
    /\ dashboard_clients' = dashboard_clients \cup {s}
    /\ UNCHANGED <<ing_pc, broken, stalled, frames, produced, delivered>>
    /\ UNCHANGED notDash

\* handle_dashboard_ws after its `async for` (close or ERROR message)
DashboardDisconnect(s) ==
    /\ sub_pc[s] = "open"
    /\ sub_pc' = [sub_pc EXCEPT ![s] = "closed"]
    /\ dashboard_clients' = dashboard_clients \ {s}
    /\ broken' = broken \ {s}
    /\ stalled' = stalled \ {s}
    /\ UNCHANGED <<ing_pc, frames, produced, delivered>>
    /\ UNCHANGED notDash

\* the environment: a subscriber's connection starts closing (send_str would
\* raise) or its peer stops reading (send_str would not return)
SubscriberBreaks(s) ==
    /\ sub_pc[s] = "open"
    /\ s \notin broken \cup stalled
    /\ broken' = broken \cup {s}
    /\ UNCHANGED <<dashboard_clients, sub_pc, ing_pc, stalled, frames,
                   produced, delivered>>
    /\ UNCHANGED notDash

SubscriberStalls(s) ==
    /\ sub_pc[s] = "open"
    /\ s \notin broken \cup stalled
    /\ stalled' = stalled \cup {s}
    /\ UNCHANGED <<dashboard_clients, sub_pc, ing_pc, broken, frames,
                   produced, delivered>>
    /\ UNCHANGED notDash

\* handle_skeleton_ws: ws.prepare, then the `async for msg in ws` loop
IngestConnect(h) ==
    /\ ing_pc[h] = "absent"
    /\ ing_pc' = [ing_pc EXCEPT ![h] = "reading"]
    /\ UNCHANGED <<dashboard_clients, sub_pc, broken, stalled, frames,
                   produced, delivered>>
    /\ UNCHANGED notDash

\* a message that leads to `continue`: not TEXT, invalid JSON, or
\* process_frame returns None
IngestSkip(h) ==
    /\ ing_pc[h] = "reading"
    /\ frames < MaxFrames
    /\ frames' = frames + 1
    /\ UNCHANGED <<dashboard_clients, sub_pc, ing_pc, broken, stalled,
                   produced, delivered>>
    /\ UNCHANGED notDash

\* The local variables of handle_skeleton_ws (its co_varnames).
\* `dashboard_clients -= dead` (line 406) is an assignment and the function has
\* no `global` statement, so inside handle_skeleton_ws the name
\* dashboard_clients is a local variable, not the module-level set.
BroadcastLocals == {"request", "ws", "msg", "payload", "skeleton",
                    "skeleton_json", "dead", "dashboard_clients", "client"}

\* A TEXT message for which process_frame returns a skeleton (lines 388-406):
\* json.dumps, `dead = set()`, then `for client in dashboard_clients` reads a
\* local that was never assigned.  UnboundLocalError is raised before the
\* first send_str; nothing catches it and the coroutine ends.
IngestFrame(h) ==
    /\ ing_pc[h] = "reading"
    /\ frames < MaxFrames
    /\ frames' = frames + 1
    /\ produced' = Append(produced, [by |-> h, clients |-> dashboard_clients])
    /\ "dashboard_clients" \in BroadcastLocals
    /\ ing_pc' = [ing_pc EXCEPT ![h] = "failed"]
    /\ UNCHANGED <<dashboard_clients, delivered, sub_pc, broken, stalled>>
    /\ UNCHANGED notDash

\* `elif msg.type == web.WSMsgType.ERROR: break`, or the iterator ends
\* because the device closed the connection
IngestEnd(h) ==
    /\ ing_pc[h] = "reading"
    /\ ing_pc' = [ing_pc EXCEPT ![h] = "returned"]
    /\ UNCHANGED <<dashboard_clients, sub_pc, broken, stalled, frames,
                   produced, delivered>>
    /\ UNCHANGED notDash

\* ======================================================================
\* Rep counter of the coaching engines
\* ======================================================================

\* knee angles fed to the engine, in whole degrees
KneeAngles == {110, 140, 170}

\* knee_angle_calibration of the loaded model: absent, or its p10 and p90
KneeCalibrations == {[p10 |-> V2DownDefault, p90 |-> V2StandingDefault],
                     [p10 |-> 130, p90 |-> 165],
                     [p10 |-> 105, p90 |-> 150]}

\* moving_average returns a float; the model carries it as the exact rational
\* mean times AvgScale (a multiple of every window length up to KneeWindow).
\* For whole-degree samples the float32 mean of at most 5 values compares with
\* a whole-degree threshold exactly as the rational mean does.
AvgScale == 60

RECURSIVE SeqSum(_)
SeqSum(q) == IF q = <<>> THEN 0 ELSE Head(q) + SeqSum(Tail(q))

\* data[-window:]
LastN(data, window) ==
    IF Len(data) <= window THEN data
    ELSE SubSeq(data, Len(data) - window + 1, Len(data))

\* a mean over the whole history, whatever the window
moving_average_whole_history(data, window) ==
    IF data = <<>> THEN 0
    ELSE (SeqSum(data) * AvgScale) \div Len(data)

\* pt_coach/common.py moving_average
moving_average(data, window) ==
    IF data = <<>> THEN 0
    ELSE IF window <= 1 THEN data[Len(data)] * AvgScale
    ELSE (SeqSum(LastN(data, window)) * AvgScale) \div Len(LastN(data, window))

\* deque(maxlen=KneeHistMaxLen).append
DequeAppend(q, x, maxlen) ==
    IF Len(q) < maxlen THEN Append(q, x) ELSE Append(Tail(q), x)

InitEngine ==
    /\ engine \in {"PT", "V2"}
    /\ \E cal \in KneeCalibrations :
          /\ down_threshold = IF engine = "PT" THEN PTDownThreshold ELSE cal.p10
          /\ standing_threshold = IF engine = "PT" THEN PTStandingThreshold
                                  ELSE cal.p90
    /\ knee_hist = <<>>
    /\ rep_state = "standing"
    /\ rep_count = 0

\* a rep counter that counts whenever the knee is straight
update_reps_no_state_check(knee_avg) ==
    LET hist == DequeAppend(knee_hist, knee_avg, KneeHistMaxLen)
        k == moving_average(hist, KneeWindow)
    IN  /\ knee_hist' = hist
        /\ IF rep_state = "standing" /\ k < down_threshold * AvgScale
           THEN rep_state' = "down" /\ UNCHANGED rep_count
           ELSE IF k > standing_threshold * AvgScale
           THEN rep_state' = "standing" /\ rep_count' = rep_count + 1
           ELSE UNCHANGED <<rep_state, rep_count>>

\* CoachV2Engine._update_reps / PTCoachEngine._update_reps
update_reps(knee_avg) ==
    LET hist == DequeAppend(knee_hist, knee_avg, KneeHistMaxLen)
        k == moving_average(hist, KneeWindow)
    IN  /\ knee_hist' = hist
        /\ IF rep_state = "standing" /\ k < down_threshold * AvgScale
           THEN rep_state' = "down" /\ UNCHANGED rep_count
           ELSE IF rep_state = "down" /\ k > standing_threshold * AvgScale
           THEN rep_state' = "standing" /\ rep_count' = rep_count + 1
           ELSE UNCHANGED <<rep_state, rep_count>>

\* infer: every call computes the frame's mean knee angle and calls
\* _update_reps once
infer(knee_avg) ==
    /\ rep_count < MaxReps
    /\ update_reps(knee_avg)
    /\ UNCHANGED <<engine, down_threshold, standing_threshold>>
    /\ UNCHANGED notEngine

\* ======================================================================
\* A synthetic knee-angle trajectory fed to a fresh engine
\* ======================================================================

LowAngle == 110
HighAngle == 170
RampAngle == 140

InitTrajectory ==
    /\ traj_phase = "start"
    /\ traj_cycle = 0
    /\ traj_held = 0
    /\ traj_ramped = FALSE
    /\ traj_short = FALSE

\* one more frame at the current extreme: infer calls _update_reps once
TrajFeed ==
    /\ traj_phase \in {"start", "low", "high"}
    /\ traj_held < MaxHold
    /\ update_reps(IF traj_phase = "low" THEN LowAngle ELSE HighAngle)
    /\ traj_held' = traj_held + 1
    /\ UNCHANGED <<traj_phase, traj_cycle, traj_ramped, traj_short>>
    /\ UNCHANGED <<engine, down_threshold, standing_threshold>>
    /\ UNCHANGED notTraj

\* one frame on the way from one extreme to the other
TrajRamp ==
    /\ traj_phase \in {"low", "high"}
    /\ traj_held = 0
    /\ ~traj_ramped
    /\ update_reps(RampAngle)
    /\ traj_ramped' = TRUE
    /\ UNCHANGED <<traj_phase, traj_cycle, traj_held, traj_short>>
    /\ UNCHANGED <<engine, down_threshold, standing_threshold>>
    /\ UNCHANGED notTraj

\* the trajectory turns round; a full cycle is 170 -> 110 -> 170
TrajTurn ==
    /\ traj_phase \in {"start", "low", "high"}
    /\ traj_phase # "start" => traj_held >= 1
    /\ traj_phase' = IF traj_phase \in {"start", "high"}
                     THEN (IF traj_phase = "high" /\ traj_cycle + 1 = TrajCycles
                           THEN "done" ELSE "low")
                     ELSE "high"
    /\ traj_cycle' = IF traj_phase = "high" THEN traj_cycle + 1 ELSE traj_cycle
    /\ traj_short' = (traj_short \/ (traj_phase # "start" /\ traj_held < KneeWindow))
    /\ traj_held' = 0
    /\ traj_ramped' = FALSE
    /\ UNCHANGED <<engineVars, notTraj>>

\* ======================================================================
\* Live coach: PTCoachEngine.infer and the main loop (live_coach.py)
\* ======================================================================

\* meta["correction_landmarks"], in list order: the two knees
CorrectionLandmarks == <<25, 26>>
CorrIdx == {CorrectionLandmarks[i] : i \in 1..Len(CorrectionLandmarks)}

\* Body-frame deltas and tolerances are carried in thousandths, visibility in
\* hundredths.  A ratio |delta| / tol is carried times RatioScale; every
\* tolerance of Tolerances divides RatioScale, so the quotient is exact, and
\* every ratio of the model has at most three decimals, so round(.., 3) of
\* the payload's error_ratio changes nothing.
RatioScale == 2000
activate_ratio == 5000          \* 2.5
clear_ratio == 2700             \* 1.35
activate_abs_dx == 60           \* 0.06
activate_abs_dy == 60           \* 0.06
clear_abs_dx == 22              \* 0.022
clear_abs_dy == 30              \* 0.03
SeverityHighRatio == 4000       \* _severity_from_ratio: r >= 2.0
SeverityMediumRatio == 2700     \* _severity_from_ratio: r >= 1.35
PoseNotClearBelow == 35         \* visibility < 0.35

\* correction_tolerance of the metadata file: what the trainers write
\* (x >= 0.05, y >= 0.08) and a hand-tuned tighter entry
Tolerances == {[x |-> 50, y |-> 80], [x |-> 10, y |-> 10]}

\* (dx, dy) = current minus reference position of one landmark
DeltaPairs == {<<22, 30>>, <<23, 0>>, <<25, 0>>, <<-60, 0>>, <<100, 0>>,
               <<0, -200>>}

\* landmarks_xyzw[[11, 12, 23, 24, 25, 26, 27, 28], 3]
VisGroups == {"shoulders", "hips", "legs"}
\* everything visible, the hips or the shoulders or both missing, or nothing
\* visible at all
Visibilities ==
    {v \in [VisGroups -> {0, 100}] :
        v["legs"] = 100 \/ (v["hips"] = 0 /\ v["shoulders"] = 0)}
AllVisible == [g \in VisGroups |-> 100]
NoDelta == [idx \in CorrIdx |-> <<0, 0>>]

\* A quality of 1.0 is carried as QScale, a multiple of every window length
\* up to QualityWindow, so that the mean of a window is exact.
QScale == 840

\* distance_calibration of the metadata: p50 < p99, or p50 = p99 (a corpus
\* whose leave-one-out distances are all equal)
DistCalibrations == {[p50 |-> 2, p99 |-> 4], [p50 |-> 2, p99 |-> 2]}

\* nearest-neighbour distances of a frame: nearer than p50, between p50 and
\* p99, beyond p99
Dists == {0, 3, 7}
TypicalDist == 3

Abs(x) == IF x < 0 THEN -x ELSE x
Max(a, b) == IF a >= b THEN a ELSE b
Min(a, b) == IF a <= b THEN a ELSE b

\* 1.0 - ((d - p50) / denom) with denom = max(1e-6, p99 - p50); distances
\* are carried in units of 1e-3, in which the floor of denom is 1/1000
raw_quality(d) ==
    IF dist_cal.p99 - dist_cal.p50 > 0
    THEN QScale - ((d - dist_cal.p50) * QScale) \div (dist_cal.p99 - dist_cal.p50)
    ELSE QScale - (d - dist_cal.p50) * QScale * 1000

\* the quality without np.clip
quality_unclipped(d) == raw_quality(d)

\* PTCoachEngine._quality_from_distance
quality_from_distance(d) == Max(0, Min(QScale, raw_quality(d)))

ratio_x(idx, delta) == (Abs(delta[idx][1]) * RatioScale) \div tol[idx].x
ratio_y(idx, delta) == (Abs(delta[idx][2]) * RatioScale) \div tol[idx].y
err_ratio(idx, delta) == Max(ratio_x(idx, delta), ratio_y(idx, delta))

should_activate(idx, delta) ==
    /\ err_ratio(idx, delta) >= activate_ratio
    /\ \/ Abs(delta[idx][1]) >= activate_abs_dx
       \/ Abs(delta[idx][2]) >= activate_abs_dy

\* a clear test that needs the ratio and the absolute deltas to be small
should_clear_both(idx, delta) ==
    /\ err_ratio(idx, delta) <= clear_ratio
    /\ Abs(delta[idx][1]) <= clear_abs_dx
    /\ Abs(delta[idx][2]) <= clear_abs_dy

should_clear(idx, delta) ==
    \/ err_ratio(idx, delta) <= clear_ratio
    \/ /\ Abs(delta[idx][1]) <= clear_abs_dx
       /\ Abs(delta[idx][2]) <= clear_abs_dy

\* active_corrections.get(correction_id, False), then lines 195-203
is_active(idx, delta) ==
    \/ active_corrections[idx] /\ ~should_clear(idx, delta)
    \/ ~active_corrections[idx] /\ should_activate(idx, delta)

severity_from_ratio(r) ==
    IF r >= SeverityHighRatio THEN "high"
    ELSE IF r >= SeverityMediumRatio THEN "medium"
    ELSE "low"

\* the correction entry of one active landmark (the fields the claims use)
correction(idx, delta) ==
    [id |-> idx,
     kind |-> "joint",
     severity |-> severity_from_ratio(err_ratio(idx, delta)),
     error_ratio |-> err_ratio(idx, delta)]

\* list.sort(key=error_ratio, reverse=True) is stable: an entry goes after
\* every entry whose ratio is at least its own
RECURSIVE InsertDesc(_, _)
InsertDesc(sorted, c) ==
    IF sorted = <<>> THEN <<c>>
    ELSE IF Head(sorted).error_ratio >= c.error_ratio
         THEN <<Head(sorted)>> \o InsertDesc(Tail(sorted), c)
         ELSE <<c>> \o sorted

RECURSIVE SortDesc(_)
SortDesc(cs) ==
    IF cs = <<>> THEN <<>>
    ELSE InsertDesc(SortDesc(SubSeq(cs, 1, Len(cs) - 1)), cs[Len(cs)])

\* the loop over correction_landmarks: the active ones, in list order
RECURSIVE ActiveCorrections(_, _, _)
ActiveCorrections(i, delta, act) ==
    IF i > Len(CorrectionLandmarks) THEN <<>>
    ELSE LET idx == CorrectionLandmarks[i]
         IN  (IF act[idx] THEN <<correction(idx, delta)>> ELSE <<>>)
             \o ActiveCorrections(i + 1, delta, act)

\* np.mean of the visibility of shoulders, hips, knees and ankles
mean_visibility(vis) ==
    (2 * vis["shoulders"] + 2 * vis["hips"] + 4 * vis["legs"]) \div 8

PoseNotClear ==
    [id |-> 0, kind |-> "POSE_NOT_CLEAR", severity |-> "low", error_ratio |-> 0]

NoPose ==
    [id |-> 0, kind |-> "NO_POSE", severity |-> "low", error_ratio |-> 0]

\* image points of a correction landmark: where it is (landmarks_xyzw[idx,
\* :2]) and where the reference has it (_body_to_image_xy), in 1e-4 of the
\* image width
RawPoints == {[cur |-> 0, tgt |-> 10000], [cur |-> 10000, tgt |-> 0]}
StillPoints == [idx \in CorrIdx |-> [cur |-> 0, tgt |-> 10000]]
AlphaScale == 100
FrameMs == 1000                 \* a steady frame clock

NoFrame ==
    [kind |-> "none", delta |-> NoDelta, vis |-> AllVisible, d |-> 0,
     pts |-> StillPoints]

NoOverlay == [present |-> FALSE, cur |-> 0, tgt |-> 0]

\* _smooth_overlay_points: the stored (and returned) points of a correction
smooth_overlay_points(idx, p) ==
    LET prev == overlay_state[idx]
    IN  IF ~prev.present
        THEN [present |-> TRUE, cur |-> p.cur, tgt |-> p.tgt]
        ELSE [present |-> TRUE,
              cur |-> (overlay_alpha_cur * prev.cur
                       + (AlphaScale - overlay_alpha_cur) * p.cur) \div AlphaScale,
              tgt |-> (overlay_alpha_tgt * prev.tgt
                       + (AlphaScale - overlay_alpha_tgt) * p.tgt) \div AlphaScale]

\* an engine that keeps the smoothing state of inactive corrections
keep_stale(ov, act) == ov

\* lines 263-266: pop every overlay_state key that is not active now
drop_stale(ov, act) == [idx \in CorrIdx |-> IF act[idx] THEN ov[idx] ELSE NoOverlay]

\* _dominant_direction
dominant_direction(idx, delta) ==
    LET dx == delta[idx][1]
        dy == delta[idx][2]
        horizontal == IF dx > 0 THEN "right" ELSE "left"
        vertical == IF dy > 0 THEN "down" ELSE "up"
        directions ==
            (IF ratio_x(idx, delta) >= DirectionRatio THEN <<horizontal>> ELSE <<>>)
            \o (IF ratio_y(idx, delta) >= DirectionRatio THEN <<vertical>> ELSE <<>>)
    IN  IF directions = <<>>
        THEN (IF Abs(dx) >= Abs(dy) THEN <<horizontal>> ELSE <<vertical>>)
        ELSE directions

\* infer lines 212-216
magnitude(r) ==
    IF r >= SeverityHighRatio THEN "large"
    ELSE IF r >= SeverityMediumRatio THEN "medium"
    ELSE "small"

\* _correction_message(side, part, direction, mag); side and part are those
\* of the landmark
correction_message(idx, delta) ==
    [idx |-> idx,
     direction |-> dominant_direction(idx, delta),
     magnitude |-> magnitude(err_ratio(idx, delta))]

NoMessage == [idx |-> 0, direction |-> <<>>, magnitude |-> ""]
Silent == [should_speak |-> FALSE, text |-> NoMessage]

\* a gate without the cooldown
should_speak_whenever_voiced(top, msg, ts) == top.severity \in {"medium", "high"}

\* lines 281-282
should_speak(top, msg, ts) ==
    /\ top.severity \in {"medium", "high"}
    /\ \/ msg # last_spoken_message
       \/ ts - last_message_ts_ms > cooldown_ms

InitCoach ==
    /\ active_corrections = [idx \in CorrIdx |-> FALSE]
    /\ quality_hist = <<>>
    /\ dist_cal \in DistCalibrations
    /\ tol \in [CorrIdx -> Tolerances]
    /\ frame_in = NoFrame
    /\ payload = [corrections |-> <<>>, score |-> 0, confidence |-> 0, rep |-> 0]
    /\ overlay_state = [idx \in CorrIdx |-> NoOverlay]
    /\ last_spoken_message = NoMessage
    /\ last_message_ts_ms = 0
    /\ ts_ms = 0
    /\ speech = Silent
    /\ ui_log = <<>>
    /\ spoken = <<>>

\* main loop, landmarks_xyzw is not None: payload = engine.infer(...)
PTInfer(d, knee_avg, delta, vis, ts, pts) ==
    LET qh == DequeAppend(quality_hist, quality_from_distance(d),
                          QualityHistMaxLen)
        act == [idx \in CorrIdx |-> is_active(idx, delta)]
        smoothed == [idx \in CorrIdx |->
                        IF act[idx] THEN smooth_overlay_points(idx, pts[idx])
                        ELSE overlay_state[idx]]
        corrections == SortDesc(ActiveCorrections(1, delta, act))
        visibility == mean_visibility(vis)
        msg == IF corrections = <<>> THEN NoMessage
               ELSE correction_message(corrections[1].id, delta)
        speak == corrections # <<>> /\ should_speak(corrections[1], msg, ts)
    IN  /\ quality_hist' = qh
        /\ update_reps(knee_avg)
        /\ active_corrections' = act
        /\ overlay_state' = drop_stale(smoothed, act)
        /\ ts_ms' = ts
        /\ speech' = IF speak THEN [should_speak |-> TRUE, text |-> msg]
                     ELSE Silent
        /\ last_spoken_message' = IF speak THEN msg ELSE last_spoken_message
        /\ last_message_ts_ms' = IF speak THEN ts ELSE last_message_ts_ms
        /\ frame_in' = [kind |-> "pose", delta |-> delta, vis |-> vis, d |-> d,
                        pts |-> pts]
        /\ payload' =
             [corrections |->
                 IF visibility < PoseNotClearBelow /\ corrections = <<>>
                 THEN <<PoseNotClear>> ELSE corrections,
              score |-> moving_average(qh, QualityWindow),
              confidence |-> Max(0, Min(100, visibility)),
              rep |-> rep_count']
        /\ UNCHANGED <<dist_cal, tol>>
        /\ UNCHANGED <<engine, down_threshold, standing_threshold>>
        /\ UNCHANGED notCoach

\* a frame of a session in which the user stands (knees straight) at a
\* typical distance from the reference and moves the correction landmarks
PoseFrame(delta, vis) ==
    /\ Len(quality_hist) < MaxCoachFrames
    /\ PTInfer(TypicalDist, HighAngle, delta, vis, ts_ms + FrameMs, StillPoints)
    /\ UNCHANGED <<ui_log, spoken>>

\* a frame of a session in which the user stands on the reference positions,
\* fully visible, and the match distance varies
MatchFrame(d) ==
    /\ Len(quality_hist) < MaxQualityFrames
    /\ PTInfer(d, HighAngle, NoDelta, AllVisible, ts_ms + FrameMs, StillPoints)
    /\ UNCHANGED <<ui_log, spoken>>

\* a frame of a session in which the match distance is either well inside
\* or well outside the calibrated range, long enough to fill the ring
RingFrame(d) ==
    /\ ts_ms < MaxRingFrames * FrameMs
    /\ PTInfer(d, HighAngle, NoDelta, AllVisible, ts_ms + FrameMs, StillPoints)
    /\ UNCHANGED <<ui_log, spoken>>

\* poses of an observed session: each correction landmark far off or back
\* in place
OverlayDeltas == {<<-60, 0>>, <<22, 30>>}

\* a frame of a session whose overlay points are observed
OverlayFrame(delta, pts) ==
    /\ Len(ui_log) < MaxCoachFrames
    /\ PTInfer(TypicalDist, HighAngle, delta, AllVisible, ts_ms + FrameMs, pts)
    /\ ui_log' = Append(ui_log, [active |-> active_corrections',
                                 ui |-> overlay_state', pts |-> pts])
    /\ UNCHANGED spoken

\* poses of a session that is listened to: landmark 25 far left or in
\* place, landmark 26 far up, somewhat right, or in place
SpeechPoses ==
    {[idx \in CorrIdx |-> IF idx = 25 THEN a ELSE b] :
        a \in {<<-60, 0>>, <<22, 30>>},
        b \in {<<0, -200>>, <<75, 0>>, <<0, 0>>}}
FrameGaps == {2500, 5000, 5001}

\* a frame of a session whose speech output is observed
SpeechFrame(delta, gap) ==
    /\ Len(quality_hist) < MaxCoachFrames
    /\ PTInfer(TypicalDist, HighAngle, delta, AllVisible, ts_ms + gap, StillPoints)
    /\ spoken' = IF speech'.should_speak
                 THEN Append(spoken, [text |-> speech'.text, ts |-> ts_ms'])
                 ELSE spoken
    /\ UNCHANGED ui_log

\* main loop, landmarks_xyzw is None: the engine is not called
MainNoPose ==
    /\ frame_in' = NoFrame
    /\ payload' = [corrections |-> <<NoPose>>, score |-> 0, confidence |-> 0,
                   rep |-> 0]
    /\ speech' = Silent
    /\ UNCHANGED <<active_corrections, quality_hist, dist_cal, tol,
                   overlay_state, last_spoken_message, last_message_ts_ms,
                   ts_ms, ui_log, spoken>>
    /\ UNCHANGED <<engineVars, notCoach>>

\* ======================================================================
\* ExercisePipeline.evaluate_frame and the session sink (src/main.py)
\* ======================================================================

InitPipeline ==
    /\ frame_index = 0
    /\ sessions_collection \in {"none", "set"}
    /\ log_every_n_frames \in 1..MaxLogEvery
    /\ sink_up = TRUE
    /\ eval_results = <<>>
    /\ logged = <<>>

\* _log_session: "skipped", "written", or "raised" when insert_one raises
log_session ==
    IF sessions_collection = "none" THEN "skipped"
    ELSE IF frame_index % log_every_n_frames # 0 THEN "skipped"
    ELSE IF sink_up THEN "written"
    ELSE "raised"

\* evaluate_frame: metrics and feedback are computed, _log_session is
\* called, then frame_index += 1 and the return; an exception of insert_one
\* leaves evaluate_frame before both
evaluate_frame ==
    /\ Len(eval_results) < MaxEvalFrames
    /\ IF log_session = "raised"
       THEN /\ eval_results' = Append(eval_results, "raised")
            /\ UNCHANGED <<frame_index, logged>>
       ELSE /\ eval_results' = Append(eval_results, "returned")
            /\ frame_index' = frame_index + 1
            /\ logged' = IF log_session = "written"
                         THEN Append(logged, frame_index) ELSE logged
    /\ UNCHANGED <<sessions_collection, log_every_n_frames, sink_up>>
    /\ UNCHANGED notPipe

\* the database becomes unreachable / reachable again
SinkGoesDown ==
    /\ sessions_collection = "set"
    /\ sink_up
    /\ sink_up' = FALSE
    /\ UNCHANGED <<frame_index, sessions_collection, log_every_n_frames,
                   eval_results, logged>>
    /\ UNCHANGED notPipe

SinkComesBack ==
    /\ sessions_collection = "set"
    /\ ~sink_up
    /\ sink_up' = TRUE
    /\ UNCHANGED <<frame_index, sessions_collection, log_every_n_frames,
                   eval_results, logged>>
    /\ UNCHANGED notPipe

\* ======================================================================
\* One ingest reader and the messages it reads (websocket_server.py,
\* process_payload of src/main.py)
\* ======================================================================

\* what a websocket message can be: a payload with every required field, a
\* JSON object without one of them, bytes that are not UTF-8 text, text that
\* is not JSON, JSON that is not an object
MessageKinds ==
    {"well_formed", "missing_fields", "not_text", "not_json", "not_object"}

\* _decode_payload: the dict, or the exception it raises
decode_payload(kind) ==
    IF kind \in {"not_text", "not_json", "not_object"} THEN "raises" ELSE "dict"

\* adapt_ios_payload: a frame, or ValueError for a missing required field
adapt_ios_payload(kind) ==
    IF kind = "missing_fields" THEN "ValueError" ELSE "frame"

\* process_payload up to line 911, for a decoded payload
process_payload_result(kind, throttled) ==
    IF throttled THEN "rate_limited"
    ELSE IF adapt_ios_payload(kind) = "ValueError" THEN "skipped"
    ELSE "processed"

InitIngest ==
    /\ rd_client_mode \in BOOLEAN
    /\ rd_pc = "connected"
    /\ conn_no = 1
    /\ handled = <<>>

\* one turn of `async for raw_message in socket`: _decode_payload, then
\* _dispatch(handler, payload).  An exception of _decode_payload leaves the
\* loop: consume_remote_skeleton_stream logs it and sleeps before it
\* reconnects, on_connection ends and the server closes the connection.
ReadMessage(kind, throttled) ==
    /\ rd_pc = "connected"
    /\ Len(handled) < MaxMessages
    /\ IF decode_payload(kind) = "raises"
       THEN /\ handled' = Append(handled, [kind |-> kind, conn |-> conn_no,
                                            result |-> "raised"])
            /\ rd_pc' = IF rd_client_mode THEN "sleeping" ELSE "ended"
       ELSE /\ handled' = Append(handled,
                             [kind |-> kind, conn |-> conn_no,
                              result |-> process_payload_result(kind, throttled)])
            /\ rd_pc' = rd_pc
    /\ UNCHANGED <<rd_client_mode, conn_no>>
    /\ UNCHANGED notIngest

\* asyncio.sleep(reconnect_delay_sec) is over and websockets.connect succeeds
Reconnect ==
    /\ rd_client_mode
    /\ rd_pc = "sleeping"
    /\ rd_pc' = "connected"
    /\ conn_no' = conn_no + 1
    /\ UNCHANGED <<rd_client_mode, handled>>
    /\ UNCHANGED notIngest

\* server mode: the phone connects again and gets a new on_connection
AcceptAgain ==
    /\ ~rd_client_mode
    /\ rd_pc = "ended"
    /\ rd_pc' = "connected"
    /\ conn_no' = conn_no + 1
    /\ UNCHANGED <<rd_client_mode, handled>>
    /\ UNCHANGED notIngest

\* ======================================================================
\* Reference trainers (cv_backend/train_reference.py, train_model.py) and
\* the replay of the corpus through the trained model (_match_frame)
\* ======================================================================

\* A frame is carried as the body-frame position of its correction landmarks
\* and of its other feature landmarks, in tenths.
FrameValues == {[corr |-> 0, rest |-> 0], [corr |-> 3, rest |-> 4]}

Corpora == UNION {[1..n -> FrameValues] : n \in 0..MaxCorpus}

NoModel == [files |-> {}, ref_norm |-> <<>>, var_corr |-> 1, var_rest |-> 1]

\* How train ends on N frames.  Neither trainer looks at N:
\*  - N = 0: np.stack of an empty list raises ValueError;
\*  - train_reference, N = 2: np.convolve(.., mode="same") with the window of
\*    3 returns 3 values and `raw_x - smooth_x` raises ValueError;
\*  - train_model, N = 1: np.percentile of the empty np.diff returns nan or
\*    raises IndexError, depending on the numpy version;
\*  - otherwise both files are written.
TrainOutcomes(t, n) ==
    IF n = 0 THEN {"ValueError"}
    ELSE IF t = "train_reference"
         THEN (IF n = 2 THEN {"ValueError"} ELSE {"written"})
         ELSE (IF n = 1 THEN {"written", "IndexError"} ELSE {"written"})

RECURSIVE SumOf(_, _)
SumOf(ref_frames, dim) ==
    IF ref_frames = <<>> THEN 0 ELSE Head(ref_frames)[dim] + SumOf(Tail(ref_frames), dim)

RECURSIVE SumSqOf(_, _)
SumSqOf(ref_frames, dim) ==
    IF ref_frames = <<>> THEN 0
    ELSE Head(ref_frames)[dim] * Head(ref_frames)[dim] + SumSqOf(Tail(ref_frames), dim)

\* robust_std squared, times N^2: np.std, replaced by 1.0 where it is below eps
robust_var(ref_frames, dim) ==
    LET n == Len(ref_frames)
        v == n * SumSqOf(ref_frames, dim) - SumOf(ref_frames, dim) * SumOf(ref_frames, dim)
    IN  IF v = 0 THEN n * n ELSE v

\* Squared Euclidean distance of two frames in scaled feature space,
\* (a - mean)/std against (b - mean)/std, times the product of the two
\* variances stored in the model (a positive factor, the same for every
\* reference frame)
scaled_sq_distance(a, b, model) ==
    (a.corr - b.corr) * (a.corr - b.corr) * model.var_rest
    + (a.rest - b.rest) * (a.rest - b.rest) * model.var_corr

\* an argmin that returns the last of several nearest frames
match_frame_last(f, model) ==
    LET ref == model.ref_norm
        dist == [k \in 1..Len(ref) |-> scaled_sq_distance(f, ref[k], model)]
    IN  CHOOSE j \in 1..Len(ref) :
            /\ \A k \in 1..Len(ref) : dist[j] <= dist[k]
            /\ \A k \in (j + 1)..Len(ref) : dist[k] > dist[j]

\* _match_frame: np.argmin returns the first index of the minimum
match_frame(f, model) ==
    LET ref == model.ref_norm
        dist == [k \in 1..Len(ref) |-> scaled_sq_distance(f, ref[k], model)]
    IN  CHOOSE j \in 1..Len(ref) :
            /\ \A k \in 1..Len(ref) : dist[j] <= dist[k]
            /\ \A k \in 1..(j - 1) : dist[k] > dist[j]

\* rms of the correction landmarks' distance to the matched reference frame
\* (the Procrustes alignment of a frame onto itself is the identity)
rms_divergence(f, matched) == Abs(f.corr - matched.corr)

InitTrainer ==
    /\ trainer \in {"train_reference", "train_model"}
    /\ corpus \in Corpora
    /\ train_outcome = "none"
    /\ artifact = NoModel
    /\ matches = <<>>

\* train(...): every statement up to the two writes
train ==
    /\ train_outcome = "none"
    /\ \E out \in TrainOutcomes(trainer, Len(corpus)) :
          /\ train_outcome' = out
          /\ artifact' = IF out = "written"
                         THEN [files |-> {"npz", "meta"}, ref_norm |-> corpus,
                               var_corr |-> robust_var(corpus, "corr"),
                               var_rest |-> robust_var(corpus, "rest")]
                         ELSE NoModel
    /\ UNCHANGED <<trainer, corpus, matches>>
    /\ UNCHANGED notTrain

\* the replay: infer on the next corpus frame with the engine that loaded
\* the artifact
ReplayFrame ==
    /\ artifact.files # {}
    /\ Len(matches) < Len(corpus)
    /\ LET f == corpus[Len(matches) + 1]
           ref_idx == match_frame(f, artifact)
       IN  matches' = Append(matches,
               [reference_frame |-> ref_idx,
                rms_divergence |-> rms_divergence(f, artifact.ref_norm[ref_idx])])
    /\ UNCHANGED <<trainer, corpus, train_outcome, artifact>>
    /\ UNCHANGED notTrain

\* ======================================================================
\* Shutdown of run_ios_stream_pipeline (src/main.py:1085-1109)
\* ======================================================================

\* asyncio.Task.done(): finished, failed with an exception, or cancelled
task_done(t) == t \in {"done", "failed", "cancelled"}

\* an await that hands control back whatever the state of its task
await_returns_at_once(t) == TRUE

\* `await task` resumes the awaiting coroutine once the task is done
await_returns(t) == task_done(t)

\* what propagates after `with suppress(CancelledError): await task`: the
\* task's own exception replaces the one that was propagating; a cancelled
\* task's CancelledError is suppressed
exception_after_await(t, pending) ==
    IF t = "failed" THEN "task_error" ELSE pending

InitShutdown ==
    /\ sd_pc = "reading"
    /\ sd_drop_if_busy \in BOOLEAN
    /\ sd_received = 0
    /\ monitor_task = "running"
    /\ sd_task = "None"
    /\ mediapipe_fusion \in {"None", "set"}
    /\ fusion_open = (mediapipe_fusion = "set")
    /\ preview \in {"None", "set"}
    /\ preview_open = (preview = "set")
    /\ sd_exc = "none"

ShutdownIdle ==
    /\ sd_pc = "not_started"
    /\ sd_drop_if_busy = TRUE
    /\ sd_received = 0
    /\ monitor_task = "None"
    /\ sd_task = "None"
    /\ mediapipe_fusion = "None"
    /\ fusion_open = FALSE
    /\ preview = "None"
    /\ preview_open = FALSE
    /\ sd_exc = "none"

\* process_payload's use of the preview: render returns False once the
\* window is closed (IOSSkeletonPreview.render closes it), and the
\* reference is dropped
render_preview(render_ok) ==
    IF preview = "set" /\ ~render_ok
    THEN preview' = "None" /\ preview_open' = FALSE
    ELSE UNCHANGED <<preview, preview_open>>

\* on_payload, called by the reader for a payload
PayloadArrives(render_ok) ==
    /\ sd_pc = "reading"
    /\ sd_received < MaxPayloads
    /\ sd_received' = sd_received + 1
    /\ IF sd_drop_if_busy
       THEN /\ sd_task' = IF sd_task # "None" /\ ~task_done(sd_task)
                          THEN sd_task
                          ELSE "scheduled"
            /\ UNCHANGED <<preview, preview_open>>
       ELSE \* await process_payload(payload): no await inside, runs to its end
            /\ render_preview(render_ok)
            /\ UNCHANGED sd_task
    /\ UNCHANGED <<sd_pc, sd_drop_if_busy, monitor_task, mediapipe_fusion,
                   fusion_open, sd_exc>>
    /\ UNCHANGED notShut

\* the event loop runs the task: process_payload from start to return, or to
\* an exception of evaluate_frame
RunTask(raises, render_ok) ==
    /\ sd_task = "scheduled"
    /\ sd_pc \in {"reading", "await_monitor", "await_task"}
    /\ IF raises
       THEN sd_task' = "failed" /\ UNCHANGED <<preview, preview_open>>
       ELSE sd_task' = "done" /\ render_preview(render_ok)
    /\ UNCHANGED <<sd_pc, sd_drop_if_busy, sd_received, monitor_task,
                   mediapipe_fusion, fusion_open, sd_exc>>
    /\ UNCHANGED notShut

\* a task whose cancellation was requested before it ran ends cancelled
TaskCancelled ==
    /\ sd_task = "cancel_requested"
    /\ sd_task' = "cancelled"
    /\ UNCHANGED <<sd_pc, sd_drop_if_busy, sd_received, monitor_task,
                   mediapipe_fusion, fusion_open, preview, preview_open, sd_exc>>
    /\ UNCHANGED notShut

\* the outer finally: close the fusion engine and the preview, then leave
outer_finally ==
    /\ fusion_open' = IF mediapipe_fusion = "set" THEN FALSE ELSE fusion_open
    /\ preview_open' = IF preview = "set" THEN FALSE ELSE preview_open
    /\ sd_pc' = "exited"

\* the reader (consume_remote_skeleton_stream / run_skeleton_ws_server) is
\* cancelled or raises; the inner finally starts: monitor_task.cancel(),
\* then `await monitor_task` suspends
ReaderEnds(how) ==
    /\ sd_pc = "reading"
    /\ sd_exc' = how
    /\ monitor_task' = "cancel_requested"
    /\ sd_pc' = "await_monitor"
    /\ UNCHANGED <<sd_drop_if_busy, sd_received, sd_task, mediapipe_fusion,
                   fusion_open, preview, preview_open>>
    /\ UNCHANGED notShut

\* stream_health_monitor gets CancelledError at its asyncio.sleep
MonitorCancelled ==
    /\ monitor_task = "cancel_requested"
    /\ monitor_task' = "cancelled"
    /\ UNCHANGED <<sd_pc, sd_drop_if_busy, sd_received, sd_task,
                   mediapipe_fusion, fusion_open, preview, preview_open, sd_exc>>
    /\ UNCHANGED notShut

\* `await monitor_task` returns; `if active_processing_task is not None:
\* await active_processing_task` either falls through to the outer finally
\* or suspends
ResumeAfterMonitor ==
    /\ sd_pc = "await_monitor"
    /\ await_returns(monitor_task)
    /\ IF sd_task = "None" \/ await_returns(sd_task)
       THEN /\ sd_exc' = exception_after_await(sd_task, sd_exc)
            /\ outer_finally
       ELSE /\ sd_pc' = "await_task"
            /\ UNCHANGED <<fusion_open, preview_open, sd_exc>>
    /\ UNCHANGED <<sd_drop_if_busy, sd_received, monitor_task, sd_task,
                   mediapipe_fusion, preview>>
    /\ UNCHANGED notShut

\* `await active_processing_task` returns, then the outer finally
ResumeAfterTask ==
    /\ sd_pc = "await_task"
    /\ await_returns(sd_task)
    /\ sd_exc' = exception_after_await(sd_task, sd_exc)
    /\ outer_finally
    /\ UNCHANGED <<sd_drop_if_busy, sd_received, monitor_task, sd_task,
                   mediapipe_fusion, preview>>
    /\ UNCHANGED notShut

\* the pipeline coroutine is cancelled (again) while it awaits the
\* processing task: Task.cancel() passes the request on to the awaited task
CancelAgain ==
    /\ sd_pc = "await_task"
    /\ sd_task = "scheduled"
    /\ sd_task' = "cancel_requested"
    /\ UNCHANGED <<sd_pc, sd_drop_if_busy, sd_received, monitor_task,
                   mediapipe_fusion, fusion_open, preview, preview_open, sd_exc>>
    /\ UNCHANGED notShut

\* ======================================================================
\* Divergence-mode engines: CoachV2Engine.infer of cv_backend/coach_engine.py
\* and of EXPERIMENT_PT_coach/live_coach_v2.py
\* ======================================================================

\* correction_landmarks of the metadata, in list order
V2Joints == <<13, 14, 15>>
V2Idx == {V2Joints[i] : i \in 1..Len(V2Joints)}

\* coach_threshold: 0.04 (cv_backend), 0.12 (experiment, or --threshold)
Thresholds == {40, 120}

\* Per-joint distance to the aligned reference, in thousandths of a body
\* unit: under both thresholds, between them, over both
V2Divs == [V2Idx -> {30, 50, 300}]
\* every correction joint visible, or the first one hidden
V2Vis == {[j \in V2Idx |-> 100], [j \in V2Idx |-> IF j = 13 THEN 40 ELSE 100]}

NoV2Frame == [kind |-> "none", div |-> [j \in V2Idx |-> 0],
              vis |-> [j \in V2Idx |-> 0]]

\* a coaching rule that keeps coaching once it has started
coach_sticky(div_dist, th) == div_dist > th \/ v2_coaching # <<>>

\* `if div_dist > self.coach_threshold`
coach_above(div_dist, th) == div_dist > th

\* the loop over correction_landmarks: divergence entries of the visible
\* joints, in list order
RECURSIVE DivergenceEntries(_, _)
DivergenceEntries(i, f) ==
    IF i > Len(V2Joints) THEN <<>>
    ELSE LET j == V2Joints[i]
         IN  (IF f.vis[j] < V2VisibleFrom THEN <<>>
              ELSE <<[idx |-> j, distance |-> f.div[j]]>>)
             \o DivergenceEntries(i + 1, f)

\* the same loop: coaching messages, in list order (idx and divergence
\* identify the joint a message is about: the text names it, and only
\* live_coach_v2.py puts the two fields in the payload)
RECURSIVE CoachingEntries(_, _, _)
CoachingEntries(i, f, th) ==
    IF i > Len(V2Joints) THEN <<>>
    ELSE LET j == V2Joints[i]
         IN  (IF f.vis[j] >= V2VisibleFrom /\ coach_above(f.div[j], th)
              THEN <<[idx |-> j, divergence |-> f.div[j]]>>
              ELSE <<>>)
             \o CoachingEntries(i + 1, f, th)

\* the sort key of message i:
\*  - live_coach_v2.py:250: c["divergence"], the message's own divergence;
\*  - coach_engine.py:214-216: divergences[i]["distance"], the entry at the
\*    message's position in the list of all visible joints
sort_key(impl, msgs, divs, i) ==
    IF impl = "experiment" THEN msgs[i].divergence
    ELSE IF i <= Len(divs) THEN divs[i].distance ELSE 0

\* list.sort(key=..., reverse=True), stable
RECURSIVE InsertByKey(_, _)
InsertByKey(sorted, c) ==
    IF sorted = <<>> THEN <<c>>
    ELSE IF Head(sorted).key >= c.key
         THEN <<Head(sorted)>> \o InsertByKey(Tail(sorted), c)
         ELSE <<c>> \o sorted

RECURSIVE SortByKey(_)
SortByKey(cs) ==
    IF cs = <<>> THEN <<>>
    ELSE InsertByKey(SortByKey(SubSeq(cs, 1, Len(cs) - 1)), cs[Len(cs)])

\* the coaching list of the payload
sorted_coaching(impl, f, th) ==
    LET msgs == CoachingEntries(1, f, th)
        divs == DivergenceEntries(1, f)
        keyed == [i \in 1..Len(msgs) |->
                    [idx |-> msgs[i].idx, divergence |-> msgs[i].divergence,
                     key |-> sort_key(impl, msgs, divs, i)]]
        sorted == SortByKey(keyed)
    IN  [i \in 1..Len(sorted) |->
            [idx |-> sorted[i].idx, divergence |-> sorted[i].divergence]]

\* total_div_sq / max(1, n_visible): the square of rms_div
rms_div_sq(f) ==
    LET divs == DivergenceEntries(1, f)
        sq == [i \in 1..Len(divs) |-> divs[i].distance * divs[i].distance]
    IN  SeqSum(sq) \div Max(1, Len(divs))

InitDivergence ==
    /\ v2_impl \in {"cv_backend", "experiment"}
    /\ coach_threshold \in Thresholds
    /\ v2_frame = NoV2Frame
    /\ v2_divergences = <<>>
    /\ v2_coaching = <<>>
    /\ rms_history = <<>>

DivergenceIdle ==
    /\ v2_impl = "cv_backend"
    /\ coach_threshold = 40
    /\ v2_frame = NoV2Frame
    /\ v2_divergences = <<>>
    /\ v2_coaching = <<>>
    /\ rms_history = <<>>

\* CoachV2Engine.infer (the parts that decide divergences and coaching)
V2Infer(div, vis) ==
    /\ Len(rms_history) < MaxV2Frames
    /\ LET f == [kind |-> "pose", div |-> div, vis |-> vis]
       IN  /\ v2_frame' = f
           /\ v2_divergences' = DivergenceEntries(1, f)
           /\ v2_coaching' = sorted_coaching(v2_impl, f, coach_threshold)
           /\ rms_history' = Append(rms_history, rms_div_sq(f))
    /\ UNCHANGED <<v2_impl, coach_threshold>>
    /\ UNCHANGED notDiv

\* ======================================================================
\* Joint-angle rep counter: RepCounter of cv_backend/rep_counter.py (and its
\* copy in cv_backend/body_tracker.py)
\* ======================================================================

\* angles are in hundredths of a degree
Deg == 100

\* RepCounter.EXERCISES
EXERCISES ==
    [arm_abduction |-> [start_angle |-> 0, peak_angle |-> 140,
                        threshold |-> 20, rest_threshold |-> 35],
     arm_vw |-> [start_angle |-> 30, peak_angle |-> 165,
                 threshold |-> 25, rest_threshold |-> 40],
     squat |-> [start_angle |-> 175, peak_angle |-> 145,
                threshold |-> 15, rest_threshold |-> 18],
     leg_abduction |-> [start_angle |-> 172, peak_angle |-> 140,
                        threshold |-> 15, rest_threshold |-> 15]]

\* `up = self.config.peak_angle > self.config.start_angle`
up(cfg) == cfg.peak_angle > cfg.start_angle

\* raw_angle of calculate_angle (0..180 degrees): the limb at one end of the
\* range of the exercise or at the other
RawAngles(cfg) ==
    IF up(cfg) THEN {0 * Deg, 180 * Deg} ELSE {90 * Deg, 180 * Deg}

\* smoothed_value is None
NoAngle == -1

\* the landmarks given to update: none, or the least visibility of the three
\* tracked joints and the angle they make
NoLandmarks == [kind |-> "none", vis |-> 0, angle |-> 0]
JointInputs ==
    {NoLandmarks}
    \cup {[kind |-> "pose", vis |-> 40, angle |-> 90 * Deg]}
    \cup {[kind |-> "pose", vis |-> 100, angle |-> a * Deg] : a \in {0, 90, 180}}

\* ComplementaryFilter.update(raw_value) with velocity 0.0: the first value
\* as it is, then alpha * smoothed + (1 - alpha) * raw (rounded down to a
\* hundredth of a degree)
filter_update(sm, raw) ==
    IF sm = NoAngle THEN raw
    ELSE (FilterAlpha * sm + (100 - FilterAlpha) * raw) \div 100

at_peak(cfg, sm) ==
    IF up(cfg) THEN sm > (cfg.peak_angle - cfg.threshold) * Deg
    ELSE sm < (cfg.peak_angle + cfg.threshold) * Deg

at_rest(cfg, sm) ==
    IF up(cfg) THEN sm < (cfg.start_angle + cfg.rest_threshold) * Deg
    ELSE sm > (cfg.start_angle - cfg.rest_threshold) * Deg

\* a state machine written with `if` for every branch instead of `elif`
fall_through(st, rest, peak) ==
    LET s1 == IF st = "rest" /\ ~rest THEN "moving" ELSE st
        s2 == IF s1 = "moving" /\ peak THEN "peak" ELSE s1
        s3 == IF s2 = "peak" /\ ~peak THEN "returning" ELSE s2
    IN  IF s3 = "returning" /\ rest THEN "rest" ELSE s3

\* the if / elif chain of update
next_state(st, rest, peak) ==
    IF st = "rest" /\ ~rest THEN "moving"
    ELSE IF st = "moving" /\ peak THEN "peak"
    ELSE IF st = "peak" /\ ~peak THEN "returning"
    ELSE IF st = "returning" /\ rest THEN "rest"
    ELSE st

InitRepCounter ==
    /\ joint_exercise \in DOMAIN EXERCISES
    /\ joint_state = "rest"
    /\ joint_rep_count = 0
    /\ smoothed_angle = NoAngle
    /\ joint_input = "none yet"
    /\ joint_updates = 0

JointRepIdle ==
    /\ joint_exercise = "arm_abduction"
    /\ joint_state = "rest"
    /\ joint_rep_count = 0
    /\ smoothed_angle = NoAngle
    /\ joint_input = "none yet"
    /\ joint_updates = 0

\* RepCounter.update
update(lm) ==
    LET cfg == EXERCISES[joint_exercise]
        sm == filter_update(smoothed_angle, lm.angle)
        st == next_state(joint_state, at_rest(cfg, sm), at_peak(cfg, sm))
    IN  /\ IF lm.kind = "none"
           THEN /\ joint_input' = "no landmarks"
                /\ UNCHANGED <<joint_state, joint_rep_count, smoothed_angle,
                               joint_updates>>
           ELSE IF lm.vis < JointVisibleFrom
           THEN /\ joint_input' = "hidden joint"
                /\ UNCHANGED <<joint_state, joint_rep_count, smoothed_angle,
                               joint_updates>>
           ELSE /\ joint_updates < MaxJointUpdates
                /\ lm.angle \in RawAngles(cfg)
                /\ joint_input' = "pose"
                /\ joint_updates' = joint_updates + 1
                /\ smoothed_angle' = sm
                /\ joint_state' = st
                /\ joint_rep_count' =
                       IF joint_state = "returning" /\ st = "rest"
                       THEN joint_rep_count + 1 ELSE joint_rep_count
        /\ UNCHANGED joint_exercise
        /\ UNCHANGED notJoint

\* ======================================================================
\* Arm depth motion detector: ArmDepthMotionDetector of main.py
\* (distances in 1e-4 m, timestamps in ms)
\* ======================================================================

ArmSides == {"left", "right"}

\* None: no distance for the side / a field not set yet
NoDepth == -1

\* ArmMotionState()
NewArmState ==
    [filtered_rel_depth_m |-> NoDepth, previous_timestamp |-> NoDepth,
     previous_velocity_sign |-> 0, last_extremum_rel_depth_m |-> NoDepth,
     last_extremum_timestamp |-> NoDepth, half_cycle_pending |-> FALSE,
     back_forth_count |-> 0]

\* _arm_distance_for_side: the arm at 0.50 m, 0.55 m or 0.80 m from the camera
ArmDepths == {5000, 5500, 8000}

\* time between two frames: under and over the minimum half-cycle duration
ArmGaps == {100, 300}

NoArmFrame == [ts |-> 0, depth |-> [s \in ArmSides |-> NoDepth]]

\* `filtered = previous_filtered * (1 - alpha) + rel_depth_m * alpha`
filter_depth(previous_filtered, rel_depth_m) ==
    (previous_filtered * (100 - filter_alpha) + rel_depth_m * filter_alpha)
        \div 100

\* velocity = (filtered - previous_filtered) / dt against the deadband, with
\* dt <= 1e-6 s replaced by 1e-6 s (then any difference of a unit is over it)
velocity_sign(previous_filtered, filtered, dt_ms) ==
    LET diff == filtered - previous_filtered
    IN  IF dt_ms <= 0
        THEN (IF diff > 0 THEN 1 ELSE IF diff < 0 THEN -1 ELSE 0)
        ELSE IF diff * 1000 > velocity_deadband_mps * dt_ms THEN 1
        ELSE IF diff * 1000 < -velocity_deadband_mps * dt_ms THEN -1
        ELSE 0

\* a half-cycle test that looks at the amplitude only
qualifies_by_amplitude(amplitude, duration) ==
    amplitude >= min_half_cycle_amplitude_m

\* `half_cycle_amplitude >= min amplitude and half_cycle_duration >= min
\* duration`
qualifies(amplitude, duration) ==
    /\ amplitude >= min_half_cycle_amplitude_m
    /\ duration >= min_half_cycle_duration_sec

\* ArmDepthMotionDetector._update_state: the state after the sample
update_state(state, rel_depth_m, timestamp) ==
    IF state.filtered_rel_depth_m = NoDepth
       \/ state.previous_timestamp = NoDepth
    THEN [state EXCEPT !.filtered_rel_depth_m = rel_depth_m,
                       !.previous_timestamp = timestamp,
                       !.last_extremum_rel_depth_m = rel_depth_m,
                       !.last_extremum_timestamp = timestamp,
                       !.previous_velocity_sign = 0]
    ELSE
    LET previous_filtered == state.filtered_rel_depth_m
        filtered == filter_depth(previous_filtered, rel_depth_m)
        sign == velocity_sign(previous_filtered, filtered,
                              timestamp - state.previous_timestamp)
        reversal == /\ sign # 0
                    /\ state.previous_velocity_sign # 0
                    /\ sign # state.previous_velocity_sign
        turning_point == previous_filtered
        good == /\ reversal
                /\ state.last_extremum_rel_depth_m # NoDepth
                /\ state.last_extremum_timestamp # NoDepth
                /\ qualifies(
                      Abs(turning_point - state.last_extremum_rel_depth_m),
                      timestamp - state.last_extremum_timestamp)
    IN  [filtered_rel_depth_m |-> filtered,
         previous_timestamp |-> timestamp,
         previous_velocity_sign |->
             IF sign # 0 THEN sign ELSE state.previous_velocity_sign,
         last_extremum_rel_depth_m |->
             IF reversal THEN turning_point
             ELSE state.last_extremum_rel_depth_m,
         last_extremum_timestamp |->
             IF reversal THEN timestamp ELSE state.last_extremum_timestamp,
         half_cycle_pending |->
             IF good THEN ~state.half_cycle_pending
             ELSE state.half_cycle_pending,
         back_forth_count |->
             IF good /\ state.half_cycle_pending
             THEN state.back_forth_count + 1 ELSE state.back_forth_count]

InitArmDetector ==
    /\ arm_states = [s \in ArmSides |-> NewArmState]
    /\ arm_frame = NoArmFrame
    /\ arm_clock = 1000
    /\ arm_frames = 0

ArmDetectorIdle == InitArmDetector

\* ArmDepthMotionDetector.update for the arms: a frame with timestamp ts in
\* which the arm of side s is at depth[s] (NoDepth: no joint of it has a
\* distance)
detector_update(ts, depth) ==
    /\ arm_frames < MaxArmFrames
    /\ arm_frames' = arm_frames + 1
    /\ arm_frame' = [ts |-> ts, depth |-> depth]
    /\ IF ts <= 0
       THEN UNCHANGED <<arm_states, arm_clock>>
       ELSE /\ arm_clock' = ts
            /\ arm_states' =
                  [s \in ArmSides |->
                      IF depth[s] = NoDepth THEN arm_states[s]
                      ELSE update_state(arm_states[s], depth[s], ts)]
    /\ UNCHANGED notArm

\* ======================================================================
\* Specifications
\* ======================================================================

\* a component that is not running keeps its initial state
StreamIdle ==
    /\ drop_if_busy = TRUE
    /\ device_is_server = TRUE
    /\ frame_interval_sec = FrameIntervalTicks
    /\ now = 0
    /\ pc = [r \in 1..MaxConns |-> "connecting"]
    /\ cur = [r \in 1..MaxConns |-> 0]
    /\ wake_at = 0
    /\ received_payloads = 0
    /\ dropped_payloads = 0
    /\ rate_limited_count = 0
    /\ last_processed_at = 0
    /\ consecutive_no_depth_frames = 0
    /\ active_processing_task = NoTask
    /\ cpu = Free
    /\ in_progress = {}
    /\ started = {}
    /\ dropped_ids = {}
    /\ evaluated = <<>>
    /\ outcome = [i \in 1..MaxPayloads |-> "none"]

EngineIdle ==
    /\ engine = "PT"
    /\ down_threshold = PTDownThreshold
    /\ standing_threshold = PTStandingThreshold
    /\ knee_hist = <<>>
    /\ rep_state = "standing"
    /\ rep_count = 0

TrajectoryIdle == InitTrajectory

CoachIdle ==
    /\ active_corrections = [idx \in CorrIdx |-> FALSE]
    /\ quality_hist = <<>>
    /\ dist_cal = [p50 |-> 2, p99 |-> 4]
    /\ tol = [idx \in CorrIdx |-> [x |-> 50, y |-> 80]]
    /\ frame_in = NoFrame
    /\ payload = [corrections |-> <<>>, score |-> 0, confidence |-> 0, rep |-> 0]
    /\ overlay_state = [idx \in CorrIdx |-> NoOverlay]
    /\ last_spoken_message = NoMessage
    /\ last_message_ts_ms = 0
    /\ ts_ms = 0
    /\ speech = Silent
    /\ ui_log = <<>>
    /\ spoken = <<>>

PipelineIdle ==
    /\ frame_index = 0
    /\ sessions_collection = "none"
    /\ log_every_n_frames = 1
    /\ sink_up = TRUE
    /\ eval_results = <<>>
    /\ logged = <<>>

IngestIdle ==
    /\ rd_client_mode = TRUE
    /\ rd_pc = "connected"
    /\ conn_no = 1
    /\ handled = <<>>

TrainerIdle ==
    /\ trainer = "train_model"
    /\ corpus = <<>>
    /\ train_outcome = "none"
    /\ artifact = NoModel
    /\ matches = <<>>

\* the components added to the model after the first three
AuxIdle ==
    /\ TrajectoryIdle /\ CoachIdle /\ PipelineIdle /\ IngestIdle
    /\ TrainerIdle /\ ShutdownIdle

\* the components after the shutdown
LaterIdle == DivergenceIdle /\ JointRepIdle /\ ArmDetectorIdle

\* every component up to the shutdown
EarlierIdle == StreamIdle /\ InitDashboard /\ EngineIdle /\ AuxIdle

\* ---- the iOS stream pipeline ----
Init == InitStream /\ InitDashboard /\ EngineIdle /\ AuxIdle /\ LaterIdle

Next ==
    \/ Tick
    \/ \E r \in 1..MaxConns : on_payload(r)
    \/ TaskStart
    \/ TaskFinish
    \/ \E r \in 1..MaxConns : InlineFinish(r)
    \/ \E r \in 1..MaxConns : ConnectOk(r)
    \/ \E r \in 1..MaxConns : ConnectFail(r)
    \/ \E r \in 1..MaxConns : TransportError(r)
    \/ \E r \in 1..MaxConns : DecodeError(r)
    \/ \E r \in 1..MaxConns : PeerClose(r)
    \/ \E r \in 1..MaxConns : SleepDone(r)
    \/ Cancel

Spec == Init /\ [][Next]_vars

\* ---- the same pipeline with a frame interval of one clock tick, so that
\* ---- several payloads pass the throttle within MaxTime
InitThrottle ==
    /\ drop_if_busy \in BOOLEAN
    /\ device_is_server = TRUE
    /\ frame_interval_sec \in {0, ThrottleIntervalTicks}
    /\ StreamStart
    /\ InitDashboard /\ EngineIdle /\ AuxIdle /\ LaterIdle

SpecThrottle == InitThrottle /\ [][Next]_vars

\* ---- the dashboard server ----
InitDash ==
    StreamIdle /\ InitDashboard /\ EngineIdle /\ AuxIdle /\ LaterIdle

NextDash ==
    \/ \E s \in Subs : DashboardConnect(s)
    \/ \E s \in Subs : DashboardDisconnect(s)
    \/ \E s \in Subs : SubscriberBreaks(s)
    \/ \E s \in Subs : SubscriberStalls(s)
    \/ \E h \in Handlers : IngestConnect(h)
    \/ \E h \in Handlers : IngestSkip(h)
    \/ \E h \in Handlers : IngestFrame(h)
    \/ \E h \in Handlers : IngestEnd(h)

SpecDashboard == InitDash /\ [][NextDash]_vars

\* ---- one coaching session of an engine ----
InitReps ==
    StreamIdle /\ InitDashboard /\ InitEngine /\ AuxIdle /\ LaterIdle

NextReps == \E knee_avg \in KneeAngles : infer(knee_avg)

SpecReps == InitReps /\ [][NextReps]_vars

\* ---- a fresh engine fed a synthetic trajectory ----
InitTraj ==
    /\ StreamIdle /\ InitDashboard /\ InitEngine
    /\ InitTrajectory /\ CoachIdle /\ PipelineIdle /\ IngestIdle /\ TrainerIdle
    /\ ShutdownIdle /\ LaterIdle

NextTraj ==
    \/ TrajFeed
    \/ TrajRamp
    \/ TrajTurn

SpecTrajectory == InitTraj /\ [][NextTraj]_vars

\* ---- a live-coach session: corrections and pose markers ----
InitLive ==
    /\ StreamIdle /\ InitDashboard /\ EngineIdle
    /\ TrajectoryIdle /\ InitCoach /\ PipelineIdle /\ IngestIdle /\ TrainerIdle
    /\ ShutdownIdle /\ LaterIdle
    /\ dist_cal = [p50 |-> 2, p99 |-> 4]
    /\ tol[25] = [x |-> 10, y |-> 10]
    /\ tol[26] = [x |-> 50, y |-> 80]

NextCoach ==
    \/ \E delta \in [CorrIdx -> DeltaPairs] : \E vis \in Visibilities :
          PoseFrame(delta, vis)
    \/ MainNoPose

SpecCoach == InitLive /\ [][NextCoach]_vars

\* ---- a live-coach session: the quality score ----
InitLiveQuality ==
    /\ StreamIdle /\ InitDashboard /\ EngineIdle
    /\ TrajectoryIdle /\ InitCoach /\ PipelineIdle /\ IngestIdle /\ TrainerIdle
    /\ ShutdownIdle /\ LaterIdle
    /\ tol = [idx \in CorrIdx |-> [x |-> 50, y |-> 80]]

NextQuality ==
    \/ \E d \in Dists : MatchFrame(d)
    \/ MainNoPose

SpecQuality == InitLiveQuality /\ [][NextQuality]_vars

\* ---- a live-coach session long enough to fill the quality ring ----
NextRing ==
    \/ \E d \in {0, 7} : RingFrame(d)
    \/ MainNoPose

SpecRing == InitLiveQuality /\ [][NextRing]_vars

\* ---- a live-coach session: the overlay points of the corrections ----
InitOverlay ==
    /\ StreamIdle /\ InitDashboard /\ EngineIdle
    /\ TrajectoryIdle /\ InitCoach /\ PipelineIdle /\ IngestIdle /\ TrainerIdle
    /\ ShutdownIdle /\ LaterIdle
    /\ dist_cal = [p50 |-> 2, p99 |-> 4]
    /\ tol = [idx \in CorrIdx |-> [x |-> 10, y |-> 10]]

NextOverlay ==
    \/ \E delta \in [CorrIdx -> OverlayDeltas] : \E p \in RawPoints :
          OverlayFrame(delta, [idx \in CorrIdx |-> p])
    \/ MainNoPose

SpecOverlay == InitOverlay /\ [][NextOverlay]_vars

\* ---- a live-coach session: what is spoken ----
NextSpeech ==
    \/ \E delta \in SpeechPoses : \E gap \in FrameGaps : SpeechFrame(delta, gap)
    \/ MainNoPose

SpecSpeech == InitLive /\ [][NextSpeech]_vars

\* ---- ExercisePipeline with a session sink that can fail ----
InitPipe ==
    /\ StreamIdle /\ InitDashboard /\ EngineIdle
    /\ TrajectoryIdle /\ CoachIdle /\ InitPipeline /\ IngestIdle /\ TrainerIdle
    /\ ShutdownIdle /\ LaterIdle

NextPipe ==
    \/ evaluate_frame
    \/ SinkGoesDown
    \/ SinkComesBack

SpecPipeline == InitPipe /\ [][NextPipe]_vars

\* ---- an ingest reader fed well-formed and malformed messages ----
InitReader ==
    /\ StreamIdle /\ InitDashboard /\ EngineIdle
    /\ TrajectoryIdle /\ CoachIdle /\ PipelineIdle /\ InitIngest /\ TrainerIdle
    /\ ShutdownIdle /\ LaterIdle

NextReader ==
    \/ \E kind \in MessageKinds : \E throttled \in BOOLEAN :
          ReadMessage(kind, throttled)
    \/ Reconnect
    \/ AcceptAgain

SpecReader == InitReader /\ [][NextReader]_vars

\* ---- training on a corpus, then replaying the corpus ----
InitTrain ==
    /\ StreamIdle /\ InitDashboard /\ EngineIdle
    /\ TrajectoryIdle /\ CoachIdle /\ PipelineIdle /\ IngestIdle /\ InitTrainer
    /\ ShutdownIdle /\ LaterIdle

NextTrain ==
    \/ train
    \/ ReplayFrame

SpecTrainer == InitTrain /\ [][NextTrain]_vars

\* ---- the stream pipeline from its reader's await to its exit ----
InitShut ==
    /\ StreamIdle /\ InitDashboard /\ EngineIdle
    /\ TrajectoryIdle /\ CoachIdle /\ PipelineIdle /\ IngestIdle /\ TrainerIdle
    /\ InitShutdown /\ LaterIdle

NextShut ==
    \/ \E render_ok \in BOOLEAN : PayloadArrives(render_ok)
    \/ \E raises, render_ok \in BOOLEAN : RunTask(raises, render_ok)
    \/ TaskCancelled
    \/ \E how \in {"CancelledError", "reader_error"} : ReaderEnds(how)
    \/ MonitorCancelled
    \/ ResumeAfterMonitor
    \/ ResumeAfterTask
    \/ CancelAgain

SpecShutdown == InitShut /\ [][NextShut]_vars

\* ---- a divergence-mode engine and its frames ----
InitDiv == EarlierIdle /\ InitDivergence /\ JointRepIdle /\ ArmDetectorIdle

NextDiv == \E div \in V2Divs : \E vis \in V2Vis : V2Infer(div, vis)

SpecDivergence == InitDiv /\ [][NextDiv]_vars

\* ---- a joint-angle rep counter and its updates ----
InitJoint ==
    EarlierIdle /\ DivergenceIdle /\ InitRepCounter /\ ArmDetectorIdle

NextJoint == \E lm \in JointInputs : update(lm)

SpecJointReps == InitJoint /\ [][NextJoint]_vars

\* ---- an arm depth motion detector and its frames ----
InitArm == EarlierIdle /\ DivergenceIdle /\ JointRepIdle /\ InitArmDetector

\* the left arm is in every frame; the right arm is far from the camera or
\* has no joint with a distance
ArmFrameDepths ==
    {[s \in ArmSides |-> IF s = "left" THEN d ELSE r] :
        d \in ArmDepths, r \in {NoDepth, 8000}}

\* a frame with a timestamp, or one without (timestamp 0.0)
NextArm ==
    \/ \E g \in ArmGaps : \E depth \in ArmFrameDepths :
          detector_update(arm_clock + g, depth)
    \/ detector_update(0, [s \in ArmSides |-> 5000])

SpecArmMotion == InitArm /\ [][NextArm]_vars

\* ======================================================================
\* Properties
\* ======================================================================

\* C1: in both overflow modes, at most one process_payload invocation is in
\* progress (started and not yet finished) at any time.
C1_OneFrameAtATime == Cardinality(in_progress) <= 1

\* a frame is in progress after an earlier one was evaluated
C1_Witness ==
    /\ Cardinality(in_progress) = 1
    /\ Len(evaluated) >= 1
    /\ received_payloads >= 2

\* C2: in drop-on-busy mode a payload that arrives while the task created
\* before it has not finished is discarded: dropped_payloads grows by exactly
\* 1, no task is created for it, and it is never handed to process_payload.
C2_DropOnBusy ==
    /\ [][ ( /\ drop_if_busy
             /\ received_payloads' = received_payloads + 1
             /\ active_processing_task.st \in {"pending", "running"} )
           => ( /\ dropped_payloads' = dropped_payloads + 1
                /\ active_processing_task' = active_processing_task
                /\ (received_payloads + 1) \in dropped_ids' ) ]_vars
    /\ [](dropped_ids \cap started = {})
    /\ [](\A id \in dropped_ids : outcome[id] = "none")

\* a payload was dropped, the task that was busy then has finished, and a
\* later payload was processed
C2_Witness ==
    /\ drop_if_busy
    /\ dropped_ids # {}
    /\ \E id \in started : \E d \in dropped_ids : id > d

\* C3 (as claimed): in client mode every end of a connection attempt other
\* than by cancellation (connect failure, transport error, ping timeout, the
\* peer closing) is followed by the reconnect sleep, and the reader never
\* returns.
C3_ReconnectAfterDelay ==
    /\ [][ ( /\ device_is_server
             /\ pc[1] \in {"connecting", "connected", "processing"}
             /\ pc'[1] \notin {"connected", "processing", "cancelled"}
             /\ pc'[1] # pc[1] )
           => pc'[1] = "sleeping" ]_vars
    /\ [](device_is_server => pc[1] # "ended")

\* C9: payloads reach pipeline.evaluate_frame in the order in which they
\* arrived at on_payload.
C9_ArrivalOrder ==
    \A i, j \in 1..Len(evaluated) : i < j => evaluated[i] < evaluated[j]

\* two payloads were evaluated in server mode, where several connections
\* feed on_payload
C9_Witness == Len(evaluated) >= 2 /\ ~device_is_server

\* C4 (as claimed): when a send to one subscriber would raise, the frame's
\* payload still goes to every other subscriber in the set, the failing
\* subscriber leaves the set, and the ingest handler stays in its read loop.
C4_FailingSendIsolated ==
    [][ \A h \in Handlers :
          ( /\ Len(produced') = Len(produced) + 1
            /\ produced'[Len(produced')].by = h
            /\ dashboard_clients \cap broken # {} )
          => ( /\ \A s \in dashboard_clients \ (broken \cup stalled) :
                     delivered'[s] = Append(delivered[s], Len(produced'))
               /\ dashboard_clients' \cap broken = {}
               /\ ing_pc'[h] = "reading" ) ]_vars

\* C5 (as claimed): with a stalled subscriber in the set, the frame's payload
\* reaches the other subscribers and the ingest handler is not held up.
C5_StalledSubscriberDoesNotBlock ==
    [][ \A h \in Handlers :
          ( /\ Len(produced') = Len(produced) + 1
            /\ produced'[Len(produced')].by = h
            /\ dashboard_clients \cap stalled # {} )
          => ( /\ \A s \in dashboard_clients \ (broken \cup stalled) :
                     /\ Len(delivered'[s]) = Len(delivered[s]) + 1
                     /\ delivered'[s][Len(delivered'[s])] = Len(produced')
               /\ ing_pc'[h] \in {"reading", "returned"} ) ]_vars

\* C6 (as claimed): a subscriber that was in the set when a frame's skeleton
\* was produced, is still registered and can take sends, has received that
\* frame's payload.
C6_EveryProcessedFrameDelivered ==
    \A p \in 1..Len(produced) :
        \A s \in produced[p].clients :
            (s \in dashboard_clients /\ s \notin broken \cup stalled)
            => \E i \in 1..Len(delivered[s]) : delivered[s][i] = p

\* C8 (as claimed): once handle_dashboard_ws has added subscribers to (or
\* removed them from) the subscriber set, a broadcast of handle_skeleton_ws
\* still does not fail.
C8_BroadcastSurvivesSetChanges ==
    \A p \in 1..Len(produced) :
        (\E s \in Subs : sub_pc[s] # "absent")
        => ing_pc[produced[p].by] # "failed"

\* C10: rep_state is standing or down (standing with rep_count 0 at first);
\* rep_count never decreases, grows by at most 1 per infer call, and grows
\* only in a call that takes rep_state from down to standing.
C10_RepCounter ==
    /\ (rep_state = "standing" /\ rep_count = 0)
    /\ [](rep_state \in {"standing", "down"})
    /\ [][ /\ rep_count' >= rep_count
           /\ rep_count' <= rep_count + 1
           /\ (rep_count' > rep_count
               => (rep_state = "down" /\ rep_state' = "standing")) ]_vars

\* the second repetition has been counted, after the deque wrapped around
C10_Witness ==
    /\ rep_count = 2
    /\ rep_state = "standing"
    /\ Len(knee_hist) = KneeHistMaxLen

\* C11 (as claimed): at the end of a trajectory of TrajCycles full cycles
\* between 170 and 110 degrees, a fresh engine reports rep_count = TrajCycles.
C11_CyclesCounted == traj_phase = "done" => rep_count = TrajCycles

\* C11 (amended): when every extreme of the trajectory is held for at least
\* the moving-average window (5 frames) and the engine's thresholds lie
\* strictly between the two extremes, rep_count = TrajCycles at the end.
C11_HeldCyclesCounted ==
    ( /\ traj_phase = "done"
      /\ ~traj_short
      /\ down_threshold > LowAngle
      /\ standing_threshold < HighAngle )
    => rep_count = TrajCycles

\* such a trajectory has ended, with ramp frames between the extremes
C11_Witness ==
    /\ traj_phase = "done"
    /\ ~traj_short
    /\ down_threshold > LowAngle
    /\ standing_threshold < HighAngle
    /\ rep_count = TrajCycles
    /\ Len(knee_hist) = KneeHistMaxLen

\* C12 (as claimed): a frame whose landmarks all have visibility 0 yields a
\* payload whose corrections list is exactly one NO_POSE entry.
C12_ZeroVisibilityIsNoPose ==
    (frame_in.kind = "pose" /\ \A g \in VisGroups : frame_in.vis[g] = 0)
    => payload.corrections = <<NoPose>>

\* C13 (as claimed): for a frame with both hips or both shoulders missing the
\* payload has no joint correction and exactly one low-severity
\* POSE_NOT_CLEAR marker.
C13_MissingTorsoIsPoseNotClear ==
    ( /\ frame_in.kind = "pose"
      /\ (frame_in.vis["hips"] = 0 \/ frame_in.vis["shoulders"] = 0) )
    => ( /\ Len(payload.corrections) = 1
         /\ payload.corrections[1].kind = "POSE_NOT_CLEAR"
         /\ payload.corrections[1].severity = "low" )

\* C14 (as claimed): whether the sink is missing, working or failing, every
\* evaluate_frame call returns its frame's feedback and metrics and advances
\* the frame index, so that frame_index counts the frames evaluated as it
\* does with no sink configured.
C14_SinkFailureDoesNotAffectOutput ==
    /\ \A i \in 1..Len(eval_results) : eval_results[i] = "returned"
    /\ frame_index = Len(eval_results)

\* C15 (as claimed): a malformed message (not text JSON, not a JSON object,
\* or without a required frame field) is skipped locally: nothing is raised
\* to the reader, and the reader stays on the connection the message came on.
C15_MalformedMessageSkipped ==
    \A i \in 1..Len(handled) :
        handled[i].kind # "well_formed"
        => /\ handled[i].result \in {"skipped", "rate_limited"}
           /\ rd_pc = "connected"
           /\ conn_no = handled[i].conn

\* C16 (as claimed): training on fewer than 10 reference frames fails with
\* InsufficientReferenceFrames and writes no model file.
C16_TooFewFramesRejected ==
    (train_outcome # "none" /\ Len(corpus) < 10)
    => (train_outcome = "InsufficientReferenceFrames" /\ artifact.files = {})

C18_QualityScoreInUnitInterval ==
    payload.score >= 0 /\ payload.score <= QScale * AvgScale

\* frames nearer than p50 and frames beyond p99 have gone through the
\* window of the moving average
C18_Witness ==
    /\ Len(quality_hist) >= QualityWindow
    /\ \E i \in 1..Len(quality_hist) : quality_hist[i] = 0
    /\ \E i \in 1..Len(quality_hist) : quality_hist[i] = QScale
    /\ frame_in.kind = "pose"
    /\ payload.score > 0
    /\ payload.score < QScale * AvgScale

\* C19: once the reader of the stream pipeline has been cancelled or has
\* failed, the health monitor's cancellation has been requested; the
\* pipeline leaves (and closes anything) only when the monitor is cancelled
\* and no processing task is scheduled or being cancelled; and when it has
\* left, the fusion engine and the preview are closed.
C19_ShutdownDrainsThenCloses ==
    /\ sd_pc \in {"await_monitor", "await_task", "exited"}
          => monitor_task \in {"cancel_requested", "cancelled"}
    /\ (sd_pc = "exited" \/ (mediapipe_fusion = "set" /\ ~fusion_open))
          => (monitor_task = "cancelled" /\ (sd_task = "None" \/ task_done(sd_task)))
    /\ sd_pc = "exited" => (~fusion_open /\ ~preview_open)

\* the pipeline has left after a shutdown that found a processing task in
\* flight (only then can the task end cancelled), with a fusion engine and
\* a preview to close
C19_Witness ==
    /\ sd_pc = "exited"
    /\ sd_exc = "CancelledError"
    /\ sd_task = "cancelled"
    /\ monitor_task = "cancelled"
    /\ mediapipe_fusion = "set" /\ ~fusion_open
    /\ preview = "set" /\ ~preview_open

\* C20: per correction landmark and frame, an inactive correction becomes
\* active iff err_ratio >= 2.5 and (|dx| >= 0.06 or |dy| >= 0.06); an active
\* one becomes inactive iff err_ratio <= 1.35 or (|dx| <= 0.022 and
\* |dy| <= 0.03); in every other case the flag keeps its value.
C20_Hysteresis ==
    [][ frame_in'.kind = "pose" =>
        \A idx \in CorrIdx :
          LET dx == Abs(frame_in'.delta[idx][1])
              dy == Abs(frame_in'.delta[idx][2])
              \* err_ratio >= n/m, err_ratio <= n/m over the reals
              ratio_ge(n, m) == dx * m >= n * tol[idx].x \/ dy * m >= n * tol[idx].y
              ratio_le(n, m) == dx * m <= n * tol[idx].x /\ dy * m <= n * tol[idx].y
              activate == ratio_ge(5, 2) /\ (dx >= 60 \/ dy >= 60)
              clear == ratio_le(135, 100) \/ (dx <= 22 /\ dy <= 30)
          IN  /\ ~active_corrections[idx] => (active_corrections'[idx] <=> activate)
              /\ active_corrections[idx] => (active_corrections'[idx] <=> ~clear)
      ]_vars

\* after a frame in which neither landmark activates or clears, one
\* correction is still active (ratio 2.5, but both deltas under 0.06 and dx
\* over 0.022) and the other still inactive (ratio 2.0)
C20_Witness ==
    \E i, j \in CorrIdx :
        /\ frame_in.kind = "pose"
        /\ active_corrections[i]
        /\ frame_in.delta[i] = <<25, 0>>
        /\ tol[i] = [x |-> 10, y |-> 10]
        /\ ~active_corrections[j]
        /\ frame_in.delta[j] = <<100, 0>>
        /\ tol[j] = [x |-> 50, y |-> 80]

\* C21: after every infer call the corrections with smoothing state are
\* exactly the active ones, and a correction that becomes active (for the
\* first time or again) gets the frame's raw points as its state.
C21_OverlayLifecycle ==
    /\ [](\A idx \in CorrIdx : overlay_state[idx].present <=> active_corrections[idx])
    /\ [][ \A idx \in CorrIdx :
             (~active_corrections[idx] /\ active_corrections'[idx])
             => /\ overlay_state'[idx].cur = frame_in'.pts[idx].cur
                /\ overlay_state'[idx].tgt = frame_in'.pts[idx].tgt ]_vars

\* a correction was active, cleared, and is active again in the third
\* frame, at raw points that differ from those it had before it cleared;
\* another one stayed active and shows smoothed points
C21_Witness ==
    /\ Len(ui_log) = 3
    /\ \E idx \in CorrIdx :
          /\ ui_log[1].active[idx]
          /\ ~ui_log[2].active[idx] /\ ~ui_log[2].ui[idx].present
          /\ ui_log[3].active[idx]
          /\ ui_log[3].pts[idx] # ui_log[1].pts[idx]
          /\ ui_log[3].ui[idx].cur = ui_log[3].pts[idx].cur
          /\ ui_log[3].ui[idx].cur # ui_log[1].ui[idx].cur
    /\ \E idx \in CorrIdx :
          /\ ui_log[2].active[idx] /\ ui_log[3].active[idx]
          /\ ui_log[3].ui[idx].cur # ui_log[3].pts[idx].cur

\* C22 (as claimed): the engine keeps at most 12 quality values, and the
\* score of a frame is the mean of the last min(8, n) of them.
C22_RingOfTwelve ==
    frame_in.kind = "pose"
    => /\ Len(quality_hist) <= 12
       /\ payload.score
            = (SeqSum(LastN(quality_hist, Min(8, Len(quality_hist)))) * AvgScale)
              \div Min(8, Len(quality_hist))

\* C23: a frame speaks iff it has a correction, the top one is of medium or
\* high severity, and its text differs from the last spoken text or more
\* than 5000 ms have passed since the last utterance; the last spoken text
\* and time change on speaking frames only; consecutive utterances of the
\* same text are more than 5000 ms apart.
C23_SpeechGate ==
    /\ [][ frame_in'.kind = "pose" /\ ts_ms' # ts_ms =>
            LET cs == payload'.corrections
                msg == correction_message(cs[1].id, frame_in'.delta)
                gate == /\ cs # <<>>
                        /\ cs[1].severity \in {"medium", "high"}
                        /\ \/ msg # last_spoken_message
                           \/ ts_ms' - last_message_ts_ms > 5000
            IN  /\ speech'.should_speak <=> gate
                /\ speech'.should_speak
                     => /\ speech'.text = msg
                        /\ last_spoken_message' = msg
                        /\ last_message_ts_ms' = ts_ms'
                /\ ~speech'.should_speak
                     => UNCHANGED <<last_spoken_message, last_message_ts_ms>> ]_vars
    /\ [](\A i \in 1..(Len(spoken) - 1) :
             spoken[i + 1].text = spoken[i].text
             => spoken[i + 1].ts - spoken[i].ts > 5000)

\* the same text has been spoken twice in a row, and the last frame, with
\* the same top correction, stayed silent at exactly 5000 ms
C23_Witness ==
    /\ Len(spoken) = 2
    /\ spoken[2].text = spoken[1].text
    /\ frame_in.kind = "pose"
    /\ ~speech.should_speak
    /\ payload.corrections # <<>>
    /\ correction_message(payload.corrections[1].id, frame_in.delta)
         = last_spoken_message
    /\ ts_ms - last_message_ts_ms = 5000

\* C27: in a frame given to the tolerance-mode engine no landmark meets the
\* activate and the clear condition together, and every joint correction of
\* the payload has an error ratio above 1.35 and severity medium or high;
\* only POSE_NOT_CLEAR has severity low.
C27_NoLowSeverityCorrection ==
    frame_in.kind = "pose"
    => /\ \A idx \in CorrIdx :
            ~(should_activate(idx, frame_in.delta) /\ should_clear(idx, frame_in.delta))
       /\ \A i \in 1..Len(payload.corrections) :
            LET c == payload.corrections[i]
            IN  /\ c.kind = "joint"
                   => (c.error_ratio > clear_ratio /\ c.severity \in {"medium", "high"})
                /\ c.severity = "low" => c.kind = "POSE_NOT_CLEAR"

\* a correction kept active by the hysteresis alone (the frame would not
\* have activated it) is in the payload with its lowest retained ratio, 2.0
C27_Witness ==
    /\ frame_in.kind = "pose"
    /\ \E i \in 1..Len(payload.corrections) :
          LET c == payload.corrections[i]
          IN  /\ c.kind = "joint"
              /\ ~should_activate(c.id, frame_in.delta)
              /\ c.error_ratio = SeverityHighRatio
              /\ c.severity = "high"


\* ----------------------------------------------------------------------
\* C24: in divergence mode the coaching messages of a frame are listed
\* worst first: of any two messages of the output, the earlier one is
\* about a joint whose divergence is at least that of the later one.
C24_WorstFirst ==
    \A i \in 1..Len(v2_coaching) : \A j \in 1..Len(v2_coaching) :
        i < j => v2_coaching[i].divergence >= v2_coaching[j].divergence

\* the joints a coaching list has messages for
CoachedJoints(coaching) == {coaching[i].idx : i \in 1..Len(coaching)}

\* the visible correction joints of a frame whose divergence is over th
JointsOver(f, th) ==
    {j \in V2Idx : f.vis[j] >= V2VisibleFrom /\ f.div[j] > th}

\* C25: in divergence mode coaching is memoryless: the payload of a frame
\* has a message for a visible correction joint iff the divergence of that
\* frame for the joint exceeds coach_threshold, one message per joint,
\* whatever frames came before; and for the same frame a higher threshold
\* never adds a message.
C25_Memoryless ==
    v2_frame.kind = "pose" =>
        /\ CoachedJoints(v2_coaching) = JointsOver(v2_frame, coach_threshold)
        /\ Len(v2_coaching) = Cardinality(CoachedJoints(v2_coaching))
        /\ \A lo \in Thresholds : \A hi \in Thresholds :
             lo <= hi =>
                CoachedJoints(sorted_coaching(v2_impl, v2_frame, hi))
                  \subseteq CoachedJoints(sorted_coaching(v2_impl, v2_frame, lo))

\* a clean frame after a frame that was perturbed at every joint: no
\* coaching, although the frame before was coached
C25_Witness ==
    /\ Len(rms_history) = 2
    /\ rms_history[1] = 300 * 300
    /\ \A j \in V2Idx : v2_frame.vis[j] >= V2VisibleFrom /\ v2_frame.div[j] = 30
    /\ v2_coaching = <<>>


\* ----------------------------------------------------------------------
\* the step in which process_payload begins for payload id
Begins(id) == id \notin started /\ id \in started'

\* the payloads the throttle has skipped
ThrottledIds == {id \in 1..MaxPayloads : outcome[id] = "throttled"}

\* C26: ingest rate limit.  With a frame interval 1/f > 0, a payload whose
\* process_payload begins sooner than 1/f after the last accepted one is
\* skipped: it is counted in rate_limited_count, is never evaluated and does
\* not move last_processed_at; a payload that passes is at least 1/f after
\* the last one that passed and becomes the last accepted one; so any two
\* payloads that pass are at least 1/f apart.  With f = 0 (interval 0) no
\* payload is throttled.
C26_RateLimit ==
    /\ [][\A id \in 1..MaxPayloads : Begins(id) =>
            IF frame_interval_sec > 0
               /\ now - last_processed_at < frame_interval_sec
            THEN /\ rate_limited_count' = rate_limited_count + 1
                 /\ outcome'[id] = "throttled"
                 /\ id \notin in_progress'
                 /\ evaluated' = evaluated
                 /\ last_processed_at' = last_processed_at
            ELSE /\ id \in in_progress'
                 /\ last_processed_at' = now
                 /\ now - last_processed_at >= frame_interval_sec
                 /\ rate_limited_count' = rate_limited_count]_vars
    /\ [][last_processed_at' # last_processed_at =>
            \E id \in 1..MaxPayloads : Begins(id) /\ id \in in_progress']_vars
    /\ [](/\ rate_limited_count = Cardinality(ThrottledIds)
          /\ \A id \in ThrottledIds :
                /\ id \notin in_progress
                /\ \A k \in 1..Len(evaluated) : evaluated[k] # id
          /\ frame_interval_sec = 0 => rate_limited_count = 0)

\* with a frame interval of one tick: a payload was skipped after one had
\* passed, and two payloads passed (at different ticks) and were evaluated
C26_Witness ==
    /\ frame_interval_sec = ThrottleIntervalTicks
    /\ outcome[1] = "evaluated"
    /\ outcome[2] = "throttled"
    /\ outcome[3] = "evaluated"
    /\ rate_limited_count = 1
    /\ last_processed_at = 2

\* C28: payload accounting in drop-on-busy mode.  At every point
\* received_payloads = dropped_payloads + the number of tasks created, and
\* every payload whose task has ended has exactly one outcome: throttled
\* (counted in rate_limited_count), rejected as invalid, held back waiting
\* for depth, or evaluated by the pipeline.
C28_PayloadAccounting ==
    drop_if_busy =>
        LET created == started \cup
                        (IF active_processing_task.st = "pending"
                         THEN {active_processing_task.id} ELSE {})
        IN  /\ received_payloads = dropped_payloads + Cardinality(created)
            /\ created \cap dropped_ids = {}
            /\ rate_limited_count = Cardinality(ThrottledIds)
            /\ \A id \in started \ in_progress :
                  outcome[id] \in {"throttled", "invalid", "waiting_depth",
                                   "evaluated"}


\* ----------------------------------------------------------------------
\* the cycle of the joint-angle rep counter
CycleEdges ==
    {<<"rest", "moving">>, <<"moving", "peak">>, <<"peak", "returning">>,
     <<"returning", "rest">>}

\* C29: the joint-angle RepCounter moves only along rest -> moving -> peak
\* -> returning -> rest, at most one edge per update; rep_count grows by
\* exactly 1 on the returning -> rest edge and changes on no other step; an
\* update with no landmarks or with a tracked joint of visibility below 0.5
\* leaves state and rep_count as they are.
C29_JointRepCycle ==
    /\ [](joint_state \in {"rest", "moving", "peak", "returning"})
    /\ [][/\ joint_state' = joint_state
             \/ <<joint_state, joint_state'>> \in CycleEdges
          /\ joint_rep_count' =
                 IF joint_state = "returning" /\ joint_state' = "rest"
                 THEN joint_rep_count + 1 ELSE joint_rep_count
          /\ joint_input' \in {"no landmarks", "hidden joint"}
                => UNCHANGED <<joint_state, joint_rep_count>>]_vars

\* a squat was counted after a whole cycle, and the update after it had a
\* hidden joint
C29_Witness ==
    /\ joint_exercise = "squat"
    /\ joint_rep_count = 1
    /\ joint_state = "rest"
    /\ joint_input = "hidden joint"


\* ----------------------------------------------------------------------
\* the step gives the detector a sample for the arm of side s
ArmSampled(s) ==
    /\ arm_frames' # arm_frames
    /\ arm_frame'.ts > 0
    /\ arm_frame'.depth[s] # NoDepth

\* the sample of the step is a qualifying half-cycle for side s: the sign of
\* the velocity is reversed, the filtered distance has moved by the minimum
\* amplitude since the last extremum, and the minimum duration has passed
QualifyingHalfCycle(s) ==
    LET pre == arm_states[s]
        sign == velocity_sign(pre.filtered_rel_depth_m,
                              arm_states'[s].filtered_rel_depth_m,
                              arm_frame'.ts - pre.previous_timestamp)
    IN  /\ pre.filtered_rel_depth_m # NoDepth
        /\ sign # 0 /\ pre.previous_velocity_sign # 0
        /\ sign # pre.previous_velocity_sign
        /\ Abs(pre.filtered_rel_depth_m - pre.last_extremum_rel_depth_m)
              >= min_half_cycle_amplitude_m
        /\ arm_frame'.ts - pre.last_extremum_timestamp
              >= min_half_cycle_duration_sec

\* C30: per arm, back_forth_count never decreases; it grows by exactly 1 on
\* every second qualifying half-cycle (the first one sets half_cycle_pending,
\* the second one counts and clears it); any other sample, a non-qualifying
\* reversal and the first sample of the arm included, and any frame without
\* a sample for the arm, changes neither back_forth_count nor
\* half_cycle_pending.
C30_BackForthCount ==
    [][\A s \in ArmSides :
         LET pre == arm_states[s]
             post == arm_states'[s]
         IN  /\ post.back_forth_count >= pre.back_forth_count
             /\ ~ArmSampled(s) => post = pre
             /\ IF ArmSampled(s) /\ QualifyingHalfCycle(s)
                THEN IF pre.half_cycle_pending
                     THEN /\ post.back_forth_count = pre.back_forth_count + 1
                          /\ ~post.half_cycle_pending
                     ELSE /\ post.back_forth_count = pre.back_forth_count
                          /\ post.half_cycle_pending
                ELSE /\ post.back_forth_count = pre.back_forth_count
                     /\ post.half_cycle_pending = pre.half_cycle_pending]_vars

\* the left arm has gone away, back and away again (two qualifying
\* half-cycles, one back-and-forth counted); the right arm, sampled in some
\* of the frames only, has counted nothing
C30_Witness ==
    /\ arm_states["left"].back_forth_count = 1
    /\ ~arm_states["left"].half_cycle_pending
    /\ arm_states["right"].filtered_rel_depth_m # NoDepth
    /\ arm_states["right"].back_forth_count = 0

====
